---- MODULE Spec2Model ----
(***************************************************************************)
(* Model of scripts/agent_eval_loop.py: the evaluation loop that runs      *)
(* harness variants over (case, skills-mode) pairs, grades each result,    *)
(* and appends one row per work item to rows.jsonl.                        *)
(*                                                                         *)
(* Scores are floats in [0,1] in the source; here a score s is the integer *)
(* s * ScoreOne, and ScoreOne is chosen so that every quotient the model   *)
(* takes (passed/total, averages of two scores) is exact.                  *)
(***************************************************************************)
EXTENDS Integers, Sequences, FiniteSets, TLC

VARIABLES
    args,              \* parsed command line (argparse.Namespace), fixed at Init
    journey_cases,     \* the loaded cases, in journey/case iteration order
    pc,                \* position of main(): "preflight","cases","summary","done","raised"
    pair_idx,          \* index of the current (case, skills-mode) pair, 1-based
    futures,           \* per harness_idx of the current pair: the work item's state
    failed_harnesses,  \* fail-fast registry: variant key -> message
    rows,              \* in-memory row list
    rows_file,         \* lines of rows.jsonl
    persist_log,       \* history: <<pair_idx, harness_idx>> of every persisted row
    preflight_results, \* manifest["preflight"]: harness -> outcome of its preflight
    invocations,       \* history: harness processes spawned so far
    summary,           \* summary.json content once written, else NoSummary
    inp,               \* inputs of one run_case_for_harness call (grading specification)
    out                \* its result (grading specification)

vars == <<args, journey_cases, pc, pair_idx, futures, failed_harnesses,
          preflight_results, rows, rows_file, persist_log, invocations, summary,
          inp, out>>

----------------------------------------------------------------------------
(* Representation of Python values.                                        *)

None == "None"

\* 1.0 as a score
ScoreOne == 1200

Min(a, b) == IF a <= b THEN a ELSE b
Max(a, b) == IF a >= b THEN a ELSE b

\* A JSON value read with dict.get(): absent key / null, a bool, a number,
\* a string that float() accepts (as its value), any other string, NaN,
\* or a list/dict.
Absent      == [k |-> "absent", v |-> 0]
JTrue       == [k |-> "bool", v |-> 1]
JFalse      == [k |-> "bool", v |-> 0]
JNum(n)     == [k |-> "num", v |-> n]
JNumStr(n)  == [k |-> "numstr", v |-> n]
JYesStr     == [k |-> "yesstr", v |-> 0]
JOtherStr   == [k |-> "str", v |-> 0]
JNaN        == [k |-> "nan", v |-> 0]
JList       == [k |-> "list", v |-> 0]

\* bool(x) of a JSON value
Truthy(x) ==
    CASE x.k = "absent" -> FALSE
      [] x.k = "bool"   -> x.v = 1
      [] x.k = "num"    -> x.v # 0
      [] x.k = "list"   -> FALSE
      [] OTHER          -> TRUE

\* x is True
IsTrue(x) == x.k = "bool" /\ x.v = 1

parse_float(value, default) ==
    CASE value.k = "absent" -> [k |-> "num", v |-> default]
      [] value.k = "bool"   -> [k |-> "num", v |-> value.v * ScoreOne]
      [] value.k = "num"    -> [k |-> "num", v |-> value.v]
      [] value.k = "numstr" -> [k |-> "num", v |-> value.v]
      [] value.k = "nan"    -> [k |-> "nan", v |-> 0]
      [] OTHER              -> [k |-> "num", v |-> default]

parse_bool(value, default) ==
    CASE value.k = "bool"   -> value.v = 1
      [] value.k = "num"    -> value.v # 0
      [] value.k = "nan"    -> TRUE
      [] value.k = "yesstr" -> TRUE
      [] value.k = "numstr" -> FALSE
      [] value.k = "str"    -> FALSE
      [] OTHER              -> default

\* max(0.0, min(1.0, f)) on a parse_float result; every comparison with NaN
\* is false, so min(1.0, nan) keeps 1.0.
Clamp01(f) == IF f.k = "nan" THEN ScoreOne ELSE Max(0, Min(ScoreOne, f.v))

\* A text is described by what the graders ask of it: the tokens it
\* contains (words) and the first JSON object extract_json_object finds in
\* it (js; js.isobj = FALSE when it finds none).
NoJson == [isobj |-> FALSE, pass |-> Absent, score |-> Absent]
EmptyText == [words |-> <<>>, js |-> NoJson]
IsBlank(text) == text.words = <<>> /\ ~text.js.isobj
Contains(text, w) == \E i \in 1..Len(text.words) : text.words[i] = w

\* variant_key without the "default" token for an empty model
variant_key_raw(harness, model) == <<harness, model>>

\* variant_key that drops the model
variant_key_harness_only(harness, model) == <<harness, "default">>

\* lines 98-100
variant_key(harness, model) ==
    <<harness, IF model # "" THEN model ELSE "default">>

----------------------------------------------------------------------------
(* Error strings are sequences of tokens, so that a prefix test is a test   *)
(* of the first token.  NoError stands for None (and for "").              *)

NoError == <<>>
EmptyMap == [k \in {} |-> NoError]
startswith(s, tok) == Len(s) > 0 /\ s[1] = tok
OrUnknown(s) == IF s = NoError THEN <<"unknown error">> ELSE s

----------------------------------------------------------------------------
(* run_harness.  proc describes what the spawned process did:              *)
(*   script_exists  bin/harness/<harness>.sh is there                      *)
(*   timeout        subprocess.TimeoutExpired                              *)
(*   returncode     the exit code                                          *)
(*   payload        the last stdout line that parses as a JSON object      *)
(*                  (present = FALSE when there is none)                   *)
(*   raw            the transcript file at the result's raw_ref            *)
(*   elapsed_ms     the time the process took                              *)

\* the wall-clock time run_harness measures around the process, in ms
ElapsedMs == 7

\* a payload that carries none of harness, latency_ms, response_text, raw_ref
BarePayload(ok, error) ==
    [present |-> TRUE, ok |-> ok, error |-> error,
     has_response |-> FALSE, response_text |-> EmptyText,
     has_harness |-> FALSE, harness |-> "", has_latency |-> FALSE, latency_ms |-> 0,
     has_raw_ref |-> FALSE, raw_ref |-> None]

NoPayload == [BarePayload(Absent, NoError) EXCEPT !.present = FALSE]

\* line 621: the test that decides whether a nonzero exit overrides the payload
run_harness_forced_ok(proc, payload) == proc.returncode # 0 /\ IsTrue(payload.ok)

\* setdefault overwriting a field the payload carries
run_harness_default_overwrites(carried, value, default) == default

\* lines 615-618: payload.setdefault(field, default)
run_harness_default(carried, value, default) ==
    IF carried THEN value ELSE default

run_harness(harness, proc) ==
    IF ~proc.script_exists THEN
        [ok |-> JFalse, harness |-> harness,
         error |-> <<"Harness script not found">>,
         response_text |-> EmptyText, latency_ms |-> 0, raw_ref |-> None,
         command_exit_code |-> Absent]
    ELSE IF proc.timeout THEN
        [ok |-> JFalse, harness |-> harness,
         error |-> <<"Harness process timeout">>,
         response_text |-> EmptyText, latency_ms |-> proc.elapsed_ms,
         raw_ref |-> "raw_out",
         command_exit_code |-> Absent]
    ELSE
        LET payload ==
                IF proc.payload.present THEN proc.payload
                ELSE [BarePayload(JFalse, <<"Harness did not emit JSON payload">>)
                        EXCEPT !.has_harness = TRUE, !.harness = harness,
                               !.has_response = TRUE,
                               !.has_latency = TRUE, !.latency_ms = proc.elapsed_ms,
                               !.has_raw_ref = TRUE, !.raw_ref = "raw_out"]
            forced == run_harness_forced_ok(proc, payload)
        IN  [ok |-> IF forced THEN JFalse ELSE payload.ok,
             harness |-> run_harness_default(payload.has_harness, payload.harness,
                                             harness),
             error |-> IF forced THEN <<"Harness command exited with code">>
                       ELSE payload.error,
             response_text |-> run_harness_default(payload.has_response,
                                                   payload.response_text, EmptyText),
             latency_ms |-> run_harness_default(payload.has_latency,
                                                payload.latency_ms, proc.elapsed_ms),
             raw_ref |-> run_harness_default(payload.has_raw_ref, payload.raw_ref,
                                             "raw_out"),
             command_exit_code |-> JNum(proc.returncode)]

----------------------------------------------------------------------------
(* extract_trace_features.  A transcript line is blank, not JSON, a JSON   *)
(* value that is not an object, an object of another type, or a            *)
(* command_execution record carrying a command.  The result says whether   *)
(* the call raised, and the commands collected.                            *)

NoFile == [exists |-> FALSE, lines |-> <<>>]

RECURSIVE scan_lines(_, _)
scan_lines(lines, acc) ==
    IF lines = <<>> THEN [raised |-> FALSE, commands |-> acc]
    ELSE LET line == Head(lines) IN
         CASE line.kind = "blank"     -> scan_lines(Tail(lines), acc)
           [] line.kind = "notjson"   -> scan_lines(Tail(lines), acc)
           [] line.kind = "nonobject" -> [raised |-> TRUE, commands |-> acc]
           [] line.kind = "command"   -> scan_lines(Tail(lines), Append(acc, line.cmd))
           [] OTHER                   -> scan_lines(Tail(lines), acc)

extract_trace_features(raw_ref, raw) ==
    IF raw_ref = None THEN [raised |-> FALSE, commands |-> <<>>]
    ELSE IF ~raw.exists THEN [raised |-> FALSE, commands |-> <<>>]
    ELSE scan_lines(raw.lines, <<>>)

----------------------------------------------------------------------------
(* grade_trace_checks and grade_response return <<pass, score>>.           *)

NumOk(S) == Cardinality(S)

grade_trace_checks(trace_checks, commands) ==
    LET must    == trace_checks.must_command_regex
        mustnot == trace_checks.must_not_command_regex
        hit(p)  == \E i \in 1..Len(commands) : commands[i] = p
        total   == Len(must) + Len(mustnot)
        passed  == NumOk({i \in 1..Len(must) : hit(must[i])})
                   + NumOk({i \in 1..Len(mustnot) : ~hit(mustnot[i])})
    IN  IF total = 0 THEN <<TRUE, ScoreOne>>
        ELSE <<passed = total, (passed * ScoreOne) \div total>>

\* re.search raises re.error on the pattern
re_error(pattern) == pattern = "("
re_search(pattern, text) == Contains(text, pattern)

\* lines 1074-1124: one breakdown entry per configured check entry, in order
det_entries(response_text, checks) ==
    [i \in 1..Len(checks.must_contain) |->
        [kind |-> "must_contain", value |-> checks.must_contain[i],
         ok |-> Contains(response_text, checks.must_contain[i]), error |-> FALSE]]
    \o
    [i \in 1..Len(checks.must_not_contain) |->
        [kind |-> "must_not_contain", value |-> checks.must_not_contain[i],
         ok |-> ~Contains(response_text, checks.must_not_contain[i]), error |-> FALSE]]
    \o
    [i \in 1..Len(checks.regex) |->
        [kind |-> "regex", value |-> checks.regex[i],
         ok |-> ~re_error(checks.regex[i]) /\ re_search(checks.regex[i], response_text),
         error |-> re_error(checks.regex[i])]]
    \o
    [i \in 1..Len(checks.must_not_regex) |->
        [kind |-> "must_not_regex", value |-> checks.must_not_regex[i],
         ok |-> ~re_error(checks.must_not_regex[i])
                /\ ~re_search(checks.must_not_regex[i], response_text),
         error |-> re_error(checks.must_not_regex[i])]]

\* grade_response leaving a check whose pattern does not compile out of the
\* count
grade_response_skips_bad_pattern(response_text, checks) ==
    LET details == det_entries(response_text, checks)
        total   == NumOk({i \in 1..Len(details) : ~details[i].error})
        passed  == NumOk({i \in 1..Len(details) : details[i].ok})
    IN  IF total = 0
        THEN IF ~IsBlank(response_text) THEN <<TRUE, ScoreOne, details>>
             ELSE <<FALSE, 0, details>>
        ELSE <<passed = total, (passed * ScoreOne) \div total, details>>

\* lines 993-1238, <<pass, score, details>>
grade_response(response_text, checks) ==
    LET details == det_entries(response_text, checks)
        total   == Len(details)
        passed  == NumOk({i \in 1..Len(details) : details[i].ok})
    IN  IF total = 0
        THEN IF ~IsBlank(response_text) THEN <<TRUE, ScoreOne, details>>
             ELSE <<FALSE, 0, details>>
        ELSE <<passed = total, (passed * ScoreOne) \div total, details>>

----------------------------------------------------------------------------
(* Oracle grading.  case.oracle is absent (or neither bool nor dict), the  *)
(* boolean shorthand, or a dict whose enabled and min_score are JSON       *)
(* values.                                                                 *)

\* 0.8, the literal default threshold
DefaultMinScore == (ScoreOne * 8) \div 10

normalize_oracle_cfg(case, default_min_score) ==
    LET raw == case.oracle IN
    CASE raw.form = "bool" -> [enabled |-> raw.enabled.v = 1, min_score |-> Absent]
      [] raw.form = "dict" ->
            [enabled |-> parse_bool(raw.enabled, TRUE),
             min_score |-> JNum(Clamp01(parse_float(raw.min_score, default_min_score)))]
      [] OTHER -> [enabled |-> FALSE, min_score |-> Absent]

NoOracleGrade ==
    [attempted |-> FALSE, ok |-> FALSE, error |-> NoError, pass_bool |-> Absent,
     score |-> Absent, threshold |-> Absent]

OracleFailed(err) ==
    [attempted |-> TRUE, ok |-> FALSE, error |-> err, pass_bool |-> Absent,
     score |-> Absent, threshold |-> Absent]

\* oracle_verdict without the threshold override of lines 804-805
oracle_verdict_trusts_judge(parsed, min_score) ==
    LET score == Clamp01(parse_float(parsed.score, 0))
    IN  [score |-> score, pass_bool |-> parse_bool(parsed.pass, score >= min_score)]

\* lines 801-805: score and verdict from the judge's parsed JSON object
oracle_verdict(parsed, min_score) ==
    LET score == Clamp01(parse_float(parsed.score, 0))
        claimed == parse_bool(parsed.pass, score >= min_score)
    IN  [score |-> score,
         pass_bool |-> IF score < min_score THEN FALSE ELSE claimed]

grade_response_oracle(oracle_cfg, harness, oproc) ==
    LET min_score == Clamp01(parse_float(oracle_cfg.min_score, DefaultMinScore))
        result == run_harness(harness, oproc)
        parsed == result.response_text.js
    IN  IF ~Truthy(result.ok) THEN
            OracleFailed(IF result.error = NoError THEN <<"oracle_harness_failed">>
                         ELSE result.error)
        ELSE IF ~parsed.isobj THEN OracleFailed(<<"oracle_parse_failed">>)
        ELSE LET v == oracle_verdict(parsed, min_score) IN
             [attempted |-> TRUE, ok |-> TRUE, error |-> NoError,
              pass_bool |-> IF v.pass_bool THEN JTrue ELSE JFalse,
              score |-> JNum(v.score), threshold |-> JNum(min_score)]

----------------------------------------------------------------------------
(* run_case_for_harness: one work item.  lookup is what the worker read    *)
(* from the fail-fast registry when it started: hit, and the message.      *)
(* hproc / oproc are what the variant's and the oracle's process do if     *)
(* spawned.  The result says whether the call raised, the row, and which   *)
(* harness processes it spawned.                                           *)

NoLookup == [hit |-> FALSE, msg |-> NoError]

\* combine with the oracle branch keeping the deterministic verdict when the
\* deterministic checks fail
combine_oracle_needs_det(a, has_trace, det, trace, oracle_requested, og) ==
    LET combined_pass  == det[1] /\ trace[1]
        combined_score == IF has_trace THEN (det[2] + trace[2]) \div 2 ELSE det[2]
        opass  == Truthy(og.pass_bool)
        oscore == parse_float(og.score, 0).v
    IN  IF oracle_requested /\ og.ok /\ a.grading \in {"oracle", "hybrid"}
        THEN <<det[1] /\ opass, (det[2] + oscore) \div 2, "hybrid">>
        ELSE IF oracle_requested /\ a.oracle_strict /\ a.grading \in {"oracle", "hybrid"}
        THEN <<FALSE, 0, "oracle_strict_error">>
        ELSE <<combined_pass, combined_score, "deterministic">>

\* combine with the hybrid branch taking the oracle's verdict alone
combine_hybrid_as_oracle(a, has_trace, det, trace, oracle_requested, og) ==
    LET combined_pass  == det[1] /\ trace[1]
        combined_score == IF has_trace THEN (det[2] + trace[2]) \div 2 ELSE det[2]
        opass  == Truthy(og.pass_bool)
        oscore == parse_float(og.score, 0).v
    IN  IF oracle_requested /\ og.ok /\ a.grading \in {"oracle", "hybrid"}
        THEN <<opass, oscore, "oracle">>
        ELSE IF oracle_requested /\ a.oracle_strict /\ a.grading \in {"oracle", "hybrid"}
        THEN <<FALSE, 0, "oracle_strict_error">>
        ELSE <<combined_pass, combined_score, "deterministic">>

\* combine with the trace verdict left out of the combined pass
combine_ignores_trace(a, has_trace, det, trace, oracle_requested, og) ==
    LET combined_score == IF has_trace THEN (det[2] + trace[2]) \div 2 ELSE det[2]
        base_source    == IF has_trace THEN "deterministic+trace" ELSE "deterministic"
    IN  <<det[1], combined_score, base_source>>

\* lines 1899-1954: the combination policy, <<pass_bool, score, grading_source>>
combine(a, has_trace, det, trace, oracle_requested, og) ==
    LET combined_pass  == det[1] /\ trace[1]
        combined_score == IF has_trace THEN (det[2] + trace[2]) \div 2 ELSE det[2]
        base_source    == IF has_trace THEN "deterministic+trace" ELSE "deterministic"
        opass  == Truthy(og.pass_bool)
        oscore == parse_float(og.score, 0).v
    IN  CASE a.grading = "oracle" /\ oracle_requested /\ og.ok ->
                <<opass, oscore, "oracle">>
          [] a.grading = "oracle" /\ oracle_requested /\ ~og.ok ->
                IF a.oracle_strict THEN <<FALSE, 0, "oracle_strict_error">>
                ELSE <<combined_pass, combined_score, "deterministic_fallback">>
          [] a.grading = "hybrid" /\ oracle_requested /\ og.ok ->
                <<det[1] /\ opass,
                  Max(0, Min(ScoreOne, (det[2] + oscore) \div 2)), "hybrid">>
          [] a.grading = "hybrid" /\ oracle_requested /\ ~og.ok ->
                IF a.oracle_strict THEN <<FALSE, 0, "hybrid_strict_error">>
                ELSE <<combined_pass, combined_score, "deterministic_fallback">>
          [] OTHER -> <<combined_pass, combined_score, base_source>>

run_case_for_harness(a, case, mode, variant, lookup, hproc, oproc) ==
    LET harness == variant.harness
        model   == variant.model
        skipped == a.failfast /\ lookup.hit
        result  ==
            IF skipped THEN
                [ok |-> JFalse, harness |-> harness,
                 error |-> <<"failfast_skip:">> \o lookup.msg,
                 response_text |-> EmptyText, latency_ms |-> 0, raw_ref |-> None,
                 command_exit_code |-> Absent]
            ELSE run_harness(harness, hproc)
        response_text == result.response_text
        det       == grade_response(response_text, case.checks)
        has_trace == case.trace_checks.nonempty
        features  == extract_trace_features(result.raw_ref, hproc.raw)
        trace     == grade_trace_checks(case.trace_checks, features.commands)
        oracle_cfg == normalize_oracle_cfg(case, a.oracle_min_score_default)
        oracle_requested == a.grading \in {"oracle", "hybrid"} /\ oracle_cfg.enabled
        og == IF oracle_requested
              THEN grade_response_oracle(oracle_cfg, a.oracle_harness, oproc)
              ELSE NoOracleGrade
        verdict == combine(a, has_trace, det, trace, oracle_requested, og)
        spawned ==
            (IF skipped THEN <<>>
             ELSE <<[role |-> "variant", harness |-> harness, model |-> model]>>)
            \o
            (IF ~features.raised /\ oracle_requested
             THEN <<[role |-> "oracle", harness |-> a.oracle_harness,
                     model |-> a.oracle_model]>>
             ELSE <<>>)
    IN  [raised  |-> features.raised,
         spawned |-> spawned,
         trace_features |-> features.commands,
         result  |-> result,
         breakdown |-> det[3],
         row |->
            [case_id |-> case.id,
             harness |-> harness,
             model |-> IF model # "" THEN model ELSE "default",
             skills_mode |-> mode,
             harness_ok |-> Truthy(result.ok),
             harness_error |-> result.error,
             response_text |-> response_text,
             pass_bool |-> verdict[1],
             score |-> verdict[2],
             grading_mode |-> a.grading,
             grading_source |-> verdict[3],
             deterministic_pass_bool |-> det[1],
             deterministic_score |-> det[2],
             trace_pass_bool |-> trace[1],
             trace_score |-> trace[2],
             oracle_requested |-> oracle_requested,
             oracle_attempted |-> og.attempted,
             oracle_ok |-> og.ok,
             oracle_pass_bool |-> og.pass_bool,
             oracle_score |-> og.score,
             oracle_threshold |-> og.threshold,
             raw_ref |-> result.raw_ref,
             command_exit_code |-> result.command_exit_code]]

----------------------------------------------------------------------------
(* Inputs.                                                                 *)

\* longest transcript, in lines
MaxLines == 2

Text(ws) == [words |-> ws, js |-> NoJson]
JudgeText(p, sc) == [words |-> <<>>, js |-> [isobj |-> TRUE, pass |-> p, score |-> sc]]

Responses == {EmptyText, Text(<<"A">>), Text(<<"B">>), Text(<<"A", "B">>)}

LineKinds ==
    {[kind |-> "notjson", cmd |-> ""], [kind |-> "nonobject", cmd |-> ""],
     [kind |-> "other", cmd |-> ""], [kind |-> "command", cmd |-> "git"]}

RawFiles ==
    {NoFile} \cup
    {[exists |-> TRUE, lines |-> l] :
        l \in UNION {[1..n -> LineKinds] : n \in 0..MaxLines}}

\* transcripts every read of which succeeds or raises on the first line
SomeRawFiles ==
    {NoFile,
     [exists |-> TRUE, lines |-> <<[kind |-> "command", cmd |-> "git"]>>],
     [exists |-> TRUE, lines |-> <<[kind |-> "nonobject", cmd |-> ""]>>]}

OkValues == {JTrue, JNum(1), JYesStr, JFalse, Absent}

Payloads(resps) ==
    {NoPayload} \cup
    {[BarePayload(o, e) EXCEPT !.has_response = TRUE, !.response_text = r] :
        o \in OkValues, e \in {NoError, <<"harness says">>}, r \in resps} \cup
    {BarePayload(o, NoError) : o \in OkValues}

Procs(resps, raws) ==
    {[script_exists |-> FALSE, timeout |-> FALSE, returncode |-> 0,
      elapsed_ms |-> ElapsedMs, payload |-> NoPayload, raw |-> NoFile]} \cup
    {[script_exists |-> TRUE, timeout |-> TRUE, returncode |-> 0,
      elapsed_ms |-> ElapsedMs, payload |-> NoPayload, raw |-> f] : f \in raws} \cup
    {[script_exists |-> TRUE, timeout |-> FALSE, returncode |-> rc,
      elapsed_ms |-> ElapsedMs, payload |-> p, raw |-> f] :
        rc \in {0, 1}, p \in Payloads(resps), f \in raws}

OkProc(resp, raw) ==
    [script_exists |-> TRUE, timeout |-> FALSE, returncode |-> 0,
     elapsed_ms |-> ElapsedMs,
     payload |-> [BarePayload(JTrue, NoError)
                    EXCEPT !.has_response = TRUE, !.response_text = resp],
     raw |-> raw]

FailProc(rc, okv, resp, raw) ==
    [script_exists |-> TRUE, timeout |-> FALSE, returncode |-> rc,
     elapsed_ms |-> ElapsedMs,
     payload |-> [BarePayload(okv, <<"harness says">>)
                    EXCEPT !.has_response = TRUE, !.response_text = resp],
     raw |-> raw]

MissingProc ==
    [script_exists |-> FALSE, timeout |-> FALSE, returncode |-> 0,
     elapsed_ms |-> ElapsedMs, payload |-> NoPayload, raw |-> NoFile]

PassValues == {Absent, JTrue, JFalse, JNum(1), JNum(0), JYesStr, JOtherStr, JList}

ScoreValues ==
    {Absent, JNum(0 - 600), JNum(0), JNum(720), JNum(960), JNum(ScoreOne),
     JNum(1800), JNumStr(720), JOtherStr, JNaN}

JudgeTexts == {JudgeText(p, sc) : p \in PassValues, sc \in ScoreValues}

Checks(mc, mnc, rx, mnrx) ==
    [must_contain |-> mc, must_not_contain |-> mnc, regex |-> rx,
     must_not_regex |-> mnrx]
NoChecks == Checks(<<>>, <<>>, <<>>, <<>>)
ChecksSet ==
    {NoChecks,
     Checks(<<"A">>, <<>>, <<>>, <<>>),
     Checks(<<"A">>, <<"B">>, <<>>, <<>>)}

\* deterministic checks of every kind, with patterns that do not compile
DetChecksSet ==
    {Checks(mc, mnc, rx, mnrx) :
        mc \in {<<>>, <<"A">>}, mnc \in {<<>>, <<"B">>},
        rx \in {<<>>, <<"A">>, <<"(">>, <<"A", "(">>},
        mnrx \in {<<>>, <<"B">>, <<"(">>}}

NoTraceChecks ==
    [nonempty |-> FALSE, must_command_regex |-> <<>>, must_not_command_regex |-> <<>>]
TraceChecksSet ==
    {NoTraceChecks,
     [nonempty |-> TRUE, must_command_regex |-> <<>>, must_not_command_regex |-> <<>>],
     [nonempty |-> TRUE, must_command_regex |-> <<"git">>, must_not_command_regex |-> <<>>],
     [nonempty |-> TRUE, must_command_regex |-> <<"git">>,
      must_not_command_regex |-> <<"git">>]}

OracleAbsent == [form |-> "absent", enabled |-> Absent, min_score |-> Absent]
OracleBool(b) == [form |-> "bool", enabled |-> b, min_score |-> Absent]
OracleDict(e, m) == [form |-> "dict", enabled |-> e, min_score |-> m]
OracleRaws ==
    {OracleAbsent, OracleBool(JTrue), OracleBool(JFalse),
     OracleDict(Absent, Absent), OracleDict(JTrue, JNum(720)),
     OracleDict(JFalse, JNum(720)), OracleDict(Absent, JNum(1800))}

\* a case of a journey; isobj = FALSE for an entry of the cases list that is
\* not a JSON object
Case(id, checks, tc, oracle) ==
    [isobj |-> TRUE, id |-> id, checks |-> checks, trace_checks |-> tc,
     oracle |-> oracle]

----------------------------------------------------------------------------
(* The command line.                                                       *)

RECURSIVE resolve_harness_variants(_, _, _)
resolve_harness_variants(harnesses, claude_models, codex_models) ==
    IF harnesses = <<>> THEN <<>>
    ELSE LET harness == Head(harnesses)
             models  == IF harness = "claude" THEN claude_models
                        ELSE IF harness = "codex" THEN codex_models
                        ELSE <<>>
             here    == IF models # <<>>
                        THEN [i \in 1..Len(models) |->
                                [harness |-> harness, model |-> models[i]]]
                        ELSE <<[harness |-> harness, model |-> ""]>>
         IN  here \o resolve_harness_variants(Tail(harnesses), claude_models, codex_models)

Args(failfast, grading, strict, workers, harnesses, claude_models, modes) ==
    [failfast |-> failfast, grading |-> grading, oracle_strict |-> strict,
     oracle_harness |-> "codex", oracle_model |-> "",
     oracle_min_score_default |-> DefaultMinScore,
     max_workers |-> Max(1, workers),
     harnesses |-> harnesses, claude_models |-> claude_models,
     codex_models |-> <<>>, skills_mode |-> modes,
     codex_cwd |-> "", oracle_codex_cwd |-> ""]

GradingModes == {"deterministic", "oracle", "hybrid"}

----------------------------------------------------------------------------
(* Grading specification: one call of run_case_for_harness on inputs drawn *)
(* at Init.                                                                *)

NoSummary == [written |-> FALSE, total_rows |-> 0, passed_rows |-> 0]
NoInput == [slice |-> "none"]
NoOutput == [done |-> FALSE]

GradeArgs(grading, strict, min_default) ==
    [Args(TRUE, grading, strict, 1, <<"claude">>, <<>>, <<"off">>)
        EXCEPT !.oracle_min_score_default = min_default]

GradeInput(slice, a, case, lookup, hproc, oproc) ==
    [slice |-> slice, a |-> a, case |-> case, mode |-> "off",
     variant |-> [harness |-> "claude", model |-> ""],
     lookup |-> lookup, hproc |-> hproc, oproc |-> oproc]

Lookups == {NoLookup, [hit |-> TRUE, msg |-> <<"harness says">>]}

JudgeProc(p, sc) == OkProc(JudgeText(p, sc), NoFile)

HarnessProcs == Procs(Responses, SomeRawFiles)

\* the oracle's process: every judge output from a process that succeeds,
\* and the ways the process itself fails
OracleProcs ==
    {JudgeProc(p, sc) : p \in PassValues, sc \in ScoreValues} \cup
    {MissingProc,
     [MissingProc EXCEPT !.script_exists = TRUE, !.timeout = TRUE],
     [MissingProc EXCEPT !.script_exists = TRUE],
     OkProc(Text(<<"A">>), NoFile),
     FailProc(0, JFalse, JudgeText(JTrue, JNum(ScoreOne)), NoFile),
     FailProc(1, JTrue, JudgeText(JTrue, JNum(ScoreOne)), NoFile),
     FailProc(1, JNum(1), JudgeText(JTrue, JNum(ScoreOne)), NoFile)}

CombineHProcs ==
    {OkProc(r, f) : r \in Responses, f \in SomeRawFiles}
    \cup {FailProc(1, JFalse, Text(<<"A">>), NoFile), MissingProc}

CombineOProcs ==
    {JudgeProc(JTrue, JNum(960)), JudgeProc(JTrue, JNum(720)),
     JudgeProc(JFalse, JNum(ScoreOne)), JudgeProc(Absent, JNum(0)),
     FailProc(1, JFalse, EmptyText, NoFile), MissingProc}

\* every way a variant's process can end, under deterministic grading
HarnessSlice ==
    \E ch \in ChecksSet, lk \in Lookups, hp \in HarnessProcs :
        inp = GradeInput("harness", GradeArgs("deterministic", FALSE, DefaultMinScore),
                         Case(1, ch, NoTraceChecks, OracleAbsent), lk, hp, MissingProc)

\* every response against every deterministic check specification
DetSlice ==
    \E ch \in DetChecksSet, r \in Responses :
        inp = GradeInput("det", GradeArgs("deterministic", FALSE, DefaultMinScore),
                         Case(1, ch, NoTraceChecks, OracleAbsent), NoLookup,
                         OkProc(r, NoFile), MissingProc)

\* every transcript against every trace-check specification
TraceSlice ==
    \E tc \in TraceChecksSet, f \in RawFiles :
        inp = GradeInput("trace", GradeArgs("deterministic", FALSE, DefaultMinScore),
                         Case(1, NoChecks, tc, OracleAbsent), NoLookup,
                         OkProc(Text(<<"A">>), f), MissingProc)

\* every judge output and oracle process failure against every oracle
\* configuration
OracleSlice ==
    \E g \in {"oracle", "hybrid"}, st \in BOOLEAN, md \in {DefaultMinScore, 600},
       o \in OracleRaws, r \in {Text(<<"A">>), Text(<<"B">>)}, op \in OracleProcs :
        inp = GradeInput("oracle", GradeArgs(g, st, md),
                         Case(1, Checks(<<"A">>, <<>>, <<>>, <<>>),
                              NoTraceChecks, o),
                         NoLookup, OkProc(r, NoFile), op)

\* every grading mode against deterministic, trace and oracle results
CombineSlice ==
    \E g \in GradingModes, st \in BOOLEAN, ch \in ChecksSet, tc \in TraceChecksSet,
       o \in {OracleAbsent, OracleBool(JTrue), OracleDict(Absent, JNum(720))},
       lk \in Lookups, hp \in CombineHProcs, op \in CombineOProcs :
        inp = GradeInput("combine", GradeArgs(g, st, DefaultMinScore),
                         Case(1, ch, tc, o), lk, hp, op)

\* payloads carrying every subset of harness, latency_ms, response_text and
\* raw_ref
DefaultsSlice ==
    \E o \in {JTrue, JFalse}, hh \in BOOLEAN, hl \in {0 - 1, 0, 120},
       hr \in BOOLEAN, hx \in BOOLEAN, rc \in {0, 1} :
        LET p == [BarePayload(o, NoError)
                    EXCEPT !.has_harness = hh,
                           !.harness = IF hh THEN "wrapper" ELSE "",
                           !.has_latency = hl \in {0, 120},
                           !.latency_ms = IF hl \in {0, 120} THEN hl ELSE 0,
                           !.has_response = hr,
                           !.response_text = IF hr THEN Text(<<"A">>) ELSE EmptyText,
                           !.has_raw_ref = hx,
                           !.raw_ref = IF hx THEN "payload_ref" ELSE None] IN
        inp = GradeInput("defaults", GradeArgs("deterministic", FALSE, DefaultMinScore),
                         Case(1, Checks(<<"A">>, <<>>, <<>>, <<>>),
                              NoTraceChecks, OracleAbsent),
                         NoLookup,
                         [OkProc(EmptyText, NoFile) EXCEPT !.payload = p,
                                                           !.returncode = rc],
                         MissingProc)

InitGrade ==
    /\ \/ HarnessSlice
       \/ DefaultsSlice
       \/ DetSlice
       \/ TraceSlice
       \/ OracleSlice
       \/ CombineSlice
    /\ out = NoOutput
    /\ args = inp.a
    /\ journey_cases = <<inp.case>>
    /\ pc = "grade"
    /\ pair_idx = 1
    /\ futures = <<>>
    /\ failed_harnesses = EmptyMap
    /\ preflight_results = EmptyMap
    /\ rows = <<>>
    /\ rows_file = <<>>
    /\ persist_log = <<>>
    /\ invocations = {}
    /\ summary = NoSummary

Grade ==
    /\ pc = "grade"
    /\ ~out.done
    /\ LET r == run_case_for_harness(inp.a, inp.case, inp.mode, inp.variant,
                                     inp.lookup, inp.hproc, inp.oproc)
       IN  out' = [done |-> TRUE, raised |-> r.raised, spawned |-> r.spawned,
                   result |-> r.result, trace_features |-> r.trace_features,
                   breakdown |-> r.breakdown, row |-> r.row]
    /\ UNCHANGED <<args, journey_cases, pc, pair_idx, futures, failed_harnesses,
                   preflight_results, rows, rows_file, persist_log, invocations,
                   summary, inp>>

NextGrade == Grade

SpecGrade == InitGrade /\ [][NextGrade]_vars

----------------------------------------------------------------------------
(* Properties of one graded work item (SpecGrade).                         *)

\* the call returned a row
Graded == out.done /\ ~out.raised

\* the variant's process was spawned and ran to its exit
ProcessExited ==
    /\ ~(inp.a.failfast /\ inp.lookup.hit)
    /\ inp.hproc.script_exists
    /\ ~inp.hproc.timeout

\* the deterministic+trace combination, from the row's own sub-results
CombinedPass(row) == row.deterministic_pass_bool /\ row.trace_pass_bool
CombinedScore(row, case) ==
    IF case.trace_checks.nonempty
    THEN (row.deterministic_score + row.trace_score) \div 2
    ELSE row.deterministic_score

\* what the judge wrote in its pass field
JudgePass == inp.oproc.payload.response_text.js.pass

\* C7: every harness invocation whose process exits with a nonzero code
\* yields a row with harness_ok = false, whatever the payload's ok field holds.
C7_NonzeroExitNotOk ==
    (Graded /\ ProcessExited /\ inp.hproc.returncode # 0) => ~out.row.harness_ok

C9_OracleMode ==
    (Graded /\ inp.a.grading = "oracle" /\ out.row.oracle_requested) =>
        LET row == out.row IN
        IF row.oracle_ok
        THEN /\ row.pass_bool = Truthy(row.oracle_pass_bool)
             /\ row.score = row.oracle_score.v
        ELSE IF inp.a.oracle_strict
        THEN ~row.pass_bool /\ row.score = 0
        ELSE /\ row.pass_bool = CombinedPass(row)
             /\ row.score = CombinedScore(row, inp.case)

\* C9 witness: the oracle passes a response that fails its deterministic
\* checks, and the row passes with the oracle's score.
C9_Witness ==
    /\ Graded
    /\ inp.a.grading = "oracle"
    /\ out.row.oracle_requested
    /\ out.row.oracle_ok
    /\ ~out.row.deterministic_pass_bool
    /\ out.row.pass_bool
    /\ out.row.score > out.row.deterministic_score

\* C10: in grading mode hybrid with the oracle enabled for the case, a
\* successful oracle grading gives pass_bool = deterministic pass and oracle
\* pass, and score = the mean of the deterministic and oracle scores; a
\* failed one gives fail / 0 under the strict flag and the
\* deterministic+trace combination otherwise.
C10_HybridMode ==
    (Graded /\ inp.a.grading = "hybrid" /\ out.row.oracle_requested) =>
        LET row == out.row IN
        IF row.oracle_ok
        THEN /\ row.pass_bool =
                    (row.deterministic_pass_bool /\ Truthy(row.oracle_pass_bool))
             /\ 2 * row.score = row.deterministic_score + row.oracle_score.v
        ELSE IF inp.a.oracle_strict
        THEN ~row.pass_bool /\ row.score = 0
        ELSE /\ row.pass_bool = CombinedPass(row)
             /\ row.score = CombinedScore(row, inp.case)

\* C10 witness: the oracle passes a response that fails its deterministic
\* checks, and the hybrid row fails with the mean score.
C10_Witness ==
    /\ Graded
    /\ inp.a.grading = "hybrid"
    /\ out.row.oracle_requested
    /\ out.row.oracle_ok
    /\ Truthy(out.row.oracle_pass_bool)
    /\ ~out.row.deterministic_pass_bool
    /\ ~out.row.pass_bool
    /\ out.row.score > out.row.deterministic_score
    /\ out.row.score < out.row.oracle_score.v

\* the payload the variant's process printed
HarnessPayload == inp.hproc.payload

\* the four fields of the result that the payload carries are the payload's
CarriedFieldsKept ==
    /\ HarnessPayload.has_harness => out.result.harness = HarnessPayload.harness
    /\ HarnessPayload.has_latency => out.result.latency_ms = HarnessPayload.latency_ms
    /\ HarnessPayload.has_response =>
          out.result.response_text = HarnessPayload.response_text
    /\ HarnessPayload.has_raw_ref => out.result.raw_ref = HarnessPayload.raw_ref

\* the fields other than latency_ms that the payload omits have their defaults
OmittedFieldsDefaulted ==
    /\ ~HarnessPayload.has_harness => out.result.harness = inp.variant.harness
    /\ ~HarnessPayload.has_response => out.result.response_text = EmptyText
    /\ ~HarnessPayload.has_raw_ref => out.result.raw_ref = "raw_out"

\* C25 as claimed: when the harness's JSON payload omits fields, run_harness
\* fills them with harness = the invoked harness name, latency_ms = 0,
\* response_text = empty, raw_ref = the raw-transcript path; the fields the
\* payload carries are unchanged.
C25_DefaultsZeroLatency ==
    (Graded /\ ProcessExited /\ HarnessPayload.present) =>
        /\ OmittedFieldsDefaulted
        /\ ~HarnessPayload.has_latency => out.result.latency_ms = 0
        /\ CarriedFieldsKept

\* C25 as amended: the same, with latency_ms defaulting to the elapsed time
\* run_harness measured for the process.
C25_DefaultsElapsedLatency ==
    (Graded /\ ProcessExited /\ HarnessPayload.present) =>
        /\ OmittedFieldsDefaulted
        /\ ~HarnessPayload.has_latency => out.result.latency_ms = inp.hproc.elapsed_ms
        /\ CarriedFieldsKept

\* C25 witness: a payload that names another harness and a raw_ref of its
\* own and omits latency_ms and response_text.
C25_Witness ==
    /\ Graded
    /\ ProcessExited
    /\ HarnessPayload.present
    /\ HarnessPayload.has_harness /\ HarnessPayload.has_raw_ref
    /\ ~HarnessPayload.has_latency /\ ~HarnessPayload.has_response
    /\ out.result.harness = "wrapper"
    /\ out.result.harness # inp.variant.harness
    /\ out.result.raw_ref = "payload_ref"
    /\ out.result.latency_ms = ElapsedMs
    /\ out.result.response_text = EmptyText

\* the case enables the oracle without setting oracle.min_score
MinScoreUnset(case) ==
    \/ case.oracle.form = "bool"
    \/ case.oracle.form = "dict" /\ case.oracle.min_score = Absent

\* C26: for a case that enables the oracle without setting oracle.min_score
\* (the object form without min_score, or oracle: true), the threshold of a
\* successful oracle grading is --oracle-min-score-default clamped to [0,1].
C26_DefaultThreshold ==
    (Graded /\ out.row.oracle_ok /\ MinScoreUnset(inp.case)) =>
        out.row.oracle_threshold =
            JNum(Clamp01(JNum(inp.a.oracle_min_score_default)))

\* the commands of the transcript's tool-invocation records, in order
RecordedCommands(raw) ==
    IF ~raw.exists THEN <<>>
    ELSE LET recs == SelectSeq(raw.lines, LAMBDA line : line.kind = "command")
         IN  [k \in 1..Len(recs) |-> recs[k].cmd]

\* C30: trace feature extraction never raises: a missing transcript gives
\* the empty feature set, and a line that is not a tool-invocation record
\* (not JSON, JSON that is not an object, an object of another type) is
\* ignored, the features being those of the other lines.
C30_TraceExtractionTotal ==
    out.done =>
        /\ ~out.raised
        /\ out.trace_features =
              IF out.result.raw_ref = None THEN <<>>
              ELSE RecordedCommands(inp.hproc.raw)

\* C29: a work item short-circuited by fail-fast spawns no harness process,
\* neither the variant's own harness nor the oracle harness, in every
\* grading mode.
C29_SkipSpawnsNothing ==
    (out.done /\ inp.a.failfast /\ inp.lookup.hit) => out.spawned = <<>>

\* C28: every row with harness_ok = false has pass_bool = false, in every
\* grading mode and for every checks specification.
C28_HarnessFailureNeverPasses ==
    (Graded /\ ~out.row.harness_ok) => ~out.row.pass_bool

\* the oracle harness was spawned by the call
OracleInvoked == \E k \in 1..Len(out.spawned) : out.spawned[k].role = "oracle"

\* number of trace checks the case configures that the trace grader counts
TraceChecksCounted(case) ==
    Len(case.trace_checks.must_command_regex)
    + Len(case.trace_checks.must_not_command_regex)

ChecksConfigured(case) ==
    Len(case.checks.must_contain) + Len(case.checks.must_not_contain)
    + Len(case.checks.regex) + Len(case.checks.must_not_regex)

\* number of breakdown entries with ok = true
BreakdownPassed == Cardinality({i \in 1..Len(out.breakdown) : out.breakdown[i].ok})

\* C13: whenever the deterministic grader counts at least one check,
\* score = passed / total and pass = (passed = total), with total the number
\* of configured check entries and passed the number of breakdown entries
\* with ok = true; a pattern that does not compile is one failed entry with
\* an error attached.
C13_DeterministicScore ==
    (Graded /\ ChecksConfigured(inp.case) > 0) =>
        LET total == ChecksConfigured(inp.case) IN
        /\ Len(out.breakdown) = total
        /\ out.row.deterministic_score * total = BreakdownPassed * ScoreOne
        /\ out.row.deterministic_pass_bool = (BreakdownPassed = total)
        /\ \A i \in 1..Len(out.breakdown) :
              (out.breakdown[i].kind \in {"regex", "must_not_regex"}
               /\ out.breakdown[i].value = "(")
                  => ~out.breakdown[i].ok /\ out.breakdown[i].error

\* C13 witness: a satisfied must_contain entry next to a regex that does not
\* compile: one of two checks passed, score 0.5, no pass.
C13_Witness ==
    /\ Graded
    /\ ChecksConfigured(inp.case) = 2
    /\ inp.case.checks.regex = <<"(">>
    /\ BreakdownPassed = 1
    /\ 2 * out.row.deterministic_score = ScoreOne
    /\ ~out.row.deterministic_pass_bool

\* C12: when the case configures no trace check that is evaluated (no
\* trace_checks mapping, an empty one, or one whose check lists are all
\* empty or unrecognised), the trace grader returns pass with score 1.0 and
\* the combined score equals the deterministic score.
C12_NoTraceCheckExcluded ==
    (Graded /\ inp.a.grading = "deterministic" /\ TraceChecksCounted(inp.case) = 0) =>
        /\ out.row.trace_pass_bool
        /\ out.row.trace_score = ScoreOne
        /\ out.row.score = out.row.deterministic_score

----------------------------------------------------------------------------
(* The run: main() from the preflight on.  The journeys have loaded; the   *)
(* cases are iterated in order, and for each (case, skills-mode) pair one  *)
(* work item per harness variant is run, serially or on a thread pool, and *)
(* persisted by the main thread.                                           *)

\* most (case, skills-mode) pairs in a run
MaxPairs == 2
\* largest --max-workers
MaxWorkers == 2

harness_variants ==
    resolve_harness_variants(args.harnesses, args.claude_models, args.codex_models)

NumPairs == Len(journey_cases) * Len(args.skills_mode)
PairCase(k) == journey_cases[((k - 1) \div Len(args.skills_mode)) + 1]
PairMode(k) == args.skills_mode[((k - 1) % Len(args.skills_mode)) + 1]

\* worker_count without the --max-workers limit
worker_count_unbounded == Len(harness_variants)

\* lines 1544 and 2056-2057
worker_count ==
    IF Len(harness_variants) > 0
    THEN Min(Max(1, args.max_workers), Len(harness_variants))
    ELSE 1
Serial == worker_count <= 1 \/ Len(harness_variants) <= 1

NoRow == [none |-> TRUE]
Pending ==
    [state |-> "pending", lookup |-> NoLookup, started_at |-> 0,
     spawned |-> FALSE, infra_failure |-> FALSE, row |-> NoRow]

\* the process failed at the infrastructure level: missing executable,
\* timeout, no JSON payload, nonzero exit code
InfraFailure(proc) ==
    \/ ~proc.script_exists
    \/ proc.timeout
    \/ ~proc.payload.present
    \/ proc.returncode # 0
NewFutures(a) ==
    [i \in 1..Len(resolve_harness_variants(a.harnesses, a.claude_models,
                                           a.codex_models)) |-> Pending]

\* lines 1788-1792: the worker's read of the fail-fast registry
registry_lookup(registry, harness, model) ==
    LET hkey == variant_key(harness, model) IN
    IF hkey \in DOMAIN registry THEN [hit |-> TRUE, msg |-> registry[hkey]]
    ELSE NoLookup

\* persist_registers keyed on the row's verdict instead of its harness_ok
persist_registers_on_fail(a, row) ==
    /\ a.failfast
    /\ ~row.pass_bool
    /\ ~startswith(row.harness_error, "failfast_skip:")

\* lines 2043-2047: does persist_row enter the row's variant in the registry
persist_registers(a, row) ==
    /\ a.failfast
    /\ ~row.harness_ok
    /\ ~startswith(row.harness_error, "failfast_skip:")

\* lines 2048-2050
registry_after(a, registry, row) ==
    IF persist_registers(a, row)
    THEN (variant_key(row.harness, row.model) :> OrUnknown(row.harness_error))
         @@ registry
    ELSE registry

Running == {j \in 1..Len(futures) : futures[j].state = "running"}

\* lines 1638-1641: the harnesses a native environment is prepared for
env_harnesses(a) ==
    IF a.grading \in {"oracle", "hybrid"} /\ a.oracle_harness \in {"claude", "codex"}
       /\ \A k \in 1..Len(a.harnesses) : a.harnesses[k] # a.oracle_harness
    THEN Append(a.harnesses, a.oracle_harness)
    ELSE a.harnesses

\* no CODEX_HOME in harness_env: the process keeps the one of os.environ
\* (lines 563-565)
\* codex_homes has no entry for the mode: <<>>
InheritedHome == <<"inherited">>

\* lines 1643-1658: codex_homes.get(mode, "")
codex_homes(a, mode) ==
    IF \E k \in 1..Len(env_harnesses(a)) : env_harnesses(a)[k] = "codex"
    THEN <<"base", mode>>
    ELSE <<>>

\* lines 343-366: a new directory, named after the instance id and a uuid
spawn_codex_home_instance(base_codex_home, mode, instance_id) ==
    <<"instance", mode, instance_id>>

\* lines 1818-1829: the CODEX_HOME of the variant's process
variant_codex_home(a, mode, harness, pair, harness_idx) ==
    IF harness = "codex" /\ a.codex_cwd = "" /\ codex_homes(a, mode) # <<>>
    THEN IF a.max_workers > 1
         THEN spawn_codex_home_instance(codex_homes(a, mode), mode,
                                        <<pair, "variant", harness_idx>>)
         ELSE codex_homes(a, mode)
    ELSE InheritedHome

\* lines 1866-1883: the CODEX_HOME of the oracle's process
oracle_codex_home(a, mode, pair, harness_idx) ==
    IF a.oracle_harness = "codex" /\ codex_homes(a, mode) # <<>>
    THEN IF a.max_workers > 1
         THEN spawn_codex_home_instance(codex_homes(a, mode), mode,
                                        <<pair, "oracle", harness_idx>>)
         ELSE codex_homes(a, mode)
    ELSE InheritedHome

\* lines 1853-1854
oracle_requested(a, case) ==
    a.grading \in {"oracle", "hybrid"}
    /\ normalize_oracle_cfg(case, a.oracle_min_score_default).enabled

\* what the harness processes of the run can do
SchedHProcs ==
    {OkProc(Text(<<"A">>), NoFile),
     FailProc(1, JFalse, EmptyText, NoFile),
     FailProc(1, JNum(1), Text(<<"A">>), NoFile),
     OkProc(Text(<<"A">>),
            [exists |-> TRUE, lines |-> <<[kind |-> "nonobject", cmd |-> ""]>>])}

SchedOProcs == {JudgeProc(JTrue, JNum(ScoreOne)), MissingProc}

PreflightProcs ==
    {OkProc(Text(<<"A">>), NoFile),
     [MissingProc EXCEPT !.script_exists = TRUE, !.timeout = TRUE]}

\* Preflight leaving a failed preflight out of the registry
Preflight_ignores_failure ==
    /\ pc = "preflight"
    /\ args.failfast /\ \E i \in 1..Len(args.harnesses) : args.harnesses[i] = "louie"
    /\ \E proc \in PreflightProcs :
        LET pre_result == run_harness("louie", proc) IN
        /\ preflight_results' =
              ("louie" :> [ok |-> Truthy(pre_result.ok), error |-> pre_result.error])
              @@ preflight_results
        /\ failed_harnesses' = failed_harnesses
        /\ invocations' = invocations \cup
              {[role |-> "preflight", harness |-> "louie", model |-> "",
                pair |-> 0, harness_idx |-> 0, codex_home |-> InheritedHome]}
    /\ pc' = "cases"
    /\ UNCHANGED <<args, journey_cases, pair_idx, futures, rows, rows_file,
                   persist_log, summary, inp, out>>

\* lines 1667-1690
Preflight ==
    /\ pc = "preflight"
    /\ args.failfast /\ \E i \in 1..Len(args.harnesses) : args.harnesses[i] = "louie"
    /\ \E proc \in PreflightProcs :
        LET pre_result == run_harness("louie", proc) IN
        /\ preflight_results' =
              ("louie" :> [ok |-> Truthy(pre_result.ok), error |-> pre_result.error])
              @@ preflight_results
        /\ failed_harnesses' =
              IF ~Truthy(pre_result.ok)
              THEN (variant_key("louie", "")
                      :> (<<"preflight_failed:">> \o OrUnknown(pre_result.error)))
                   @@ failed_harnesses
              ELSE failed_harnesses
        /\ invocations' = invocations \cup
              {[role |-> "preflight", harness |-> "louie", model |-> "",
                pair |-> 0, harness_idx |-> 0, codex_home |-> InheritedHome]}
    /\ pc' = "cases"
    /\ UNCHANGED <<args, journey_cases, pair_idx, futures, rows, rows_file,
                   persist_log, summary, inp, out>>

NoPreflight ==
    /\ pc = "preflight"
    /\ ~(args.failfast /\ \E i \in 1..Len(args.harnesses) : args.harnesses[i] = "louie")
    /\ pc' = "cases"
    /\ UNCHANGED <<args, journey_cases, pair_idx, futures, failed_harnesses,
                   preflight_results, rows, rows_file, persist_log, invocations,
                   summary, inp, out>>

\* a worker (or, serially, the main thread) enters run_case_for_harness and
\* reads the registry
StartWorkItem(i) ==
    /\ pc = "cases"
    /\ pair_idx <= NumPairs
    /\ PairCase(pair_idx).isobj
    /\ futures[i].state = "pending"
    /\ \A j \in 1..(i - 1) : futures[j].state # "pending"
    /\ IF Serial
       THEN \A j \in 1..(i - 1) : futures[j].state = "persisted"
       ELSE Cardinality(Running) < worker_count
    /\ futures' = [futures EXCEPT ![i] =
          [@ EXCEPT !.state = "running",
                    !.started_at = Len(rows),
                    !.lookup = registry_lookup(failed_harnesses,
                                  harness_variants[i].harness,
                                  harness_variants[i].model)]]
    /\ UNCHANGED <<args, journey_cases, pc, pair_idx, failed_harnesses,
                   preflight_results, rows, rows_file, persist_log, invocations,
                   summary, inp, out>>

\* FinishWorkItem with the worker entering its own failure in the registry
FinishWorkItem_registers(i) ==
    /\ pc = "cases"
    /\ futures[i].state = "running"
    /\ \E hp \in SchedHProcs, op \in SchedOProcs :
        LET r == run_case_for_harness(args, PairCase(pair_idx), PairMode(pair_idx),
                                      harness_variants[i], futures[i].lookup, hp, op)
            ran == \E k \in 1..Len(r.spawned) : r.spawned[k].role = "variant"
        IN  /\ futures' = [futures EXCEPT ![i] =
                  [@ EXCEPT !.state = IF r.raised THEN "raised" ELSE "finished",
                            !.spawned = ran,
                            !.infra_failure = ran /\ InfraFailure(hp),
                            !.row = IF r.raised THEN NoRow ELSE r.row]]
            /\ failed_harnesses' =
                  IF r.raised THEN failed_harnesses
                  ELSE registry_after(args, failed_harnesses, r.row)
            /\ invocations' = invocations \cup
                  {[role |-> r.spawned[k].role, harness |-> r.spawned[k].harness,
                    model |-> r.spawned[k].model, pair |-> pair_idx,
                    harness_idx |-> i,
                    codex_home |->
                        IF r.spawned[k].role = "variant"
                        THEN variant_codex_home(args, PairMode(pair_idx),
                                                r.spawned[k].harness, pair_idx, i)
                        ELSE oracle_codex_home(args, PairMode(pair_idx), pair_idx, i)] :
                   k \in 1..Len(r.spawned)}
    /\ UNCHANGED <<args, journey_cases, pc, pair_idx,
                   preflight_results, rows, rows_file, persist_log, summary, inp, out>>

\* run_case_for_harness returns its row, or raises
FinishWorkItem(i) ==
    /\ pc = "cases"
    /\ futures[i].state = "running"
    /\ \E hp \in SchedHProcs, op \in SchedOProcs :
        LET r == run_case_for_harness(args, PairCase(pair_idx), PairMode(pair_idx),
                                      harness_variants[i], futures[i].lookup, hp, op)
            ran == \E k \in 1..Len(r.spawned) : r.spawned[k].role = "variant"
        IN  /\ futures' = [futures EXCEPT ![i] =
                  [@ EXCEPT !.state = IF r.raised THEN "raised" ELSE "finished",
                            !.spawned = ran,
                            !.infra_failure = ran /\ InfraFailure(hp),
                            !.row = IF r.raised THEN NoRow ELSE r.row]]
            /\ invocations' = invocations \cup
                  {[role |-> r.spawned[k].role, harness |-> r.spawned[k].harness,
                    model |-> r.spawned[k].model, pair |-> pair_idx,
                    harness_idx |-> i,
                    codex_home |->
                        IF r.spawned[k].role = "variant"
                        THEN variant_codex_home(args, PairMode(pair_idx),
                                                r.spawned[k].harness, pair_idx, i)
                        ELSE oracle_codex_home(args, PairMode(pair_idx), pair_idx, i)] :
                   k \in 1..Len(r.spawned)}
    /\ UNCHANGED <<args, journey_cases, pc, pair_idx, failed_harnesses,
                   preflight_results, rows, rows_file, persist_log, summary, inp, out>>

\* line 2053: json.dumps(row, sort_keys=True) + "\n", one line of text
json_line(row) == [json |-> row]

\* PersistRow with the ledger reopened for writing at every row
PersistRow_reopens(i) ==
    /\ pc = "cases"
    /\ futures[i].state = "finished"
    /\ LET row == futures[i].row IN
        /\ failed_harnesses' = registry_after(args, failed_harnesses, row)
        /\ rows' = Append(rows, row)
        /\ rows_file' = <<json_line(row)>>
        /\ persist_log' = Append(persist_log,
              [pair |-> pair_idx, harness_idx |-> i,
               started_at |-> futures[i].started_at, lookup |-> futures[i].lookup,
               spawned |-> futures[i].spawned,
               infra_failure |-> futures[i].infra_failure])
    /\ futures' = [futures EXCEPT ![i] = [@ EXCEPT !.state = "persisted"]]
    /\ UNCHANGED <<args, journey_cases, pc, pair_idx, preflight_results, invocations,
                   summary, inp, out>>

\* lines 2039-2054, called from line 2059 or 2067
PersistRow(i) ==
    /\ pc = "cases"
    /\ futures[i].state = "finished"
    /\ LET row == futures[i].row IN
        /\ failed_harnesses' = registry_after(args, failed_harnesses, row)
        /\ rows' = Append(rows, row)
        /\ rows_file' = Append(rows_file, json_line(row))
        /\ persist_log' = Append(persist_log,
              [pair |-> pair_idx, harness_idx |-> i,
               started_at |-> futures[i].started_at, lookup |-> futures[i].lookup,
               spawned |-> futures[i].spawned,
               infra_failure |-> futures[i].infra_failure])
    /\ futures' = [futures EXCEPT ![i] = [@ EXCEPT !.state = "persisted"]]
    /\ UNCHANGED <<args, journey_cases, pc, pair_idx, preflight_results, invocations,
                   summary, inp, out>>

\* the exception of a work item leaves main(): line 2059, or fut.result()
\* at line 2067
RaiseOut(i) ==
    /\ pc = "cases"
    /\ futures[i].state = "raised"
    /\ pc' = "raised"
    /\ UNCHANGED <<args, journey_cases, pair_idx, futures, failed_harnesses,
                   preflight_results, rows, rows_file, persist_log, invocations,
                   summary, inp, out>>

\* NextPair not waiting for the pair's work items to be persisted
NextPair_no_wait ==
    /\ pc = "cases"
    /\ pair_idx <= NumPairs
    /\ \A j \in 1..Len(futures) : futures[j].state \notin {"pending", "raised"}
    /\ pair_idx' = pair_idx + 1
    /\ futures' = NewFutures(args)
    /\ UNCHANGED <<args, journey_cases, pc, failed_harnesses, preflight_results,
                   rows, rows_file, persist_log, invocations, summary, inp, out>>

\* lines 1729-1734 and 2056-2067: the pair is done, on to the next
NextPair ==
    /\ pc = "cases"
    /\ pair_idx <= NumPairs
    /\ \A j \in 1..Len(futures) : futures[j].state = "persisted"
    /\ pair_idx' = pair_idx + 1
    /\ futures' = NewFutures(args)
    /\ UNCHANGED <<args, journey_cases, pc, failed_harnesses, preflight_results,
                   rows, rows_file, persist_log, invocations, summary, inp, out>>

\* lines 2094-2147
WriteSummary ==
    /\ pc = "cases"
    /\ pair_idx > NumPairs
    /\ summary' = [written |-> TRUE, total_rows |-> Len(rows),
                   passed_rows |-> Cardinality({j \in 1..Len(rows) : rows[j].pass_bool})]
    /\ pc' = "done"
    /\ UNCHANGED <<args, journey_cases, pair_idx, futures, failed_harnesses,
                   preflight_results, rows, rows_file, persist_log, invocations,
                   inp, out>>

SchedCase(n) ==
    IF n % 2 = 1
    THEN Case(n, Checks(<<"A">>, <<>>, <<>>, <<>>),
              NoTraceChecks, OracleBool(JTrue))
    ELSE Case(n, Checks(<<"B">>, <<>>, <<>>, <<>>),
              NoTraceChecks, OracleAbsent)

HarnessConfigs ==
    {[harnesses |-> <<"claude">>, claude_models |-> <<"m1", "m2">>],
     [harnesses |-> <<"louie", "codex">>, claude_models |-> <<>>],
     [harnesses |-> <<"codex", "codex">>, claude_models |-> <<>>]}

SchedArgs ==
    {Args(TRUE, "deterministic", FALSE, w, hc.harnesses, hc.claude_models, <<"off">>) :
        w \in {1, MaxWorkers}, hc \in HarnessConfigs}
    \cup
    {Args(FALSE, "deterministic", FALSE, 1, <<"louie", "codex">>, <<>>, <<"off">>)}
    \cup
    {Args(TRUE, "oracle", st, 1, <<"louie", "codex">>, <<>>, <<"off">>) :
        st \in BOOLEAN}
    \cup
    {[Args(TRUE, "oracle", FALSE, 1, <<"codex", "louie">>, <<>>, <<"off">>)
        EXCEPT !.oracle_harness = "louie"]}
    \cup
    {Args(TRUE, "deterministic", FALSE, MaxWorkers, <<"claude">>, <<"m1", "m2">>,
          <<"off", "on">>)}
    \cup
    {Args(FALSE, "deterministic", FALSE, MaxWorkers, <<"codex">>, <<>>, <<"off">>),
     Args(FALSE, "deterministic", FALSE, MaxWorkers, <<"claude">>,
          <<"m1", "m2", "m3">>, <<"off">>)}

Init ==
    /\ args \in SchedArgs
    /\ journey_cases \in
          {[i \in 1..n |-> SchedCase(i)] :
              n \in {m \in 0..MaxPairs :
                        /\ m * Len(args.skills_mode) <= MaxPairs
                        /\ Len(harness_variants) >= 3
                              => m * Len(args.skills_mode) <= 1}}
    /\ pc = "preflight"
    /\ pair_idx = 1
    /\ futures = NewFutures(args)
    /\ failed_harnesses = EmptyMap
    /\ preflight_results = EmptyMap
    /\ rows = <<>>
    /\ rows_file = <<>>
    /\ persist_log = <<>>
    /\ invocations = {}
    /\ summary = NoSummary
    /\ inp = NoInput
    /\ out = NoOutput

Next ==
    \/ Preflight
    \/ NoPreflight
    \/ \E i \in 1..Len(futures) : StartWorkItem(i)
    \/ \E i \in 1..Len(futures) : FinishWorkItem(i)
    \/ \E i \in 1..Len(futures) : PersistRow(i)
    \/ \E i \in 1..Len(futures) : RaiseOut(i)
    \/ NextPair
    \/ WriteSummary

Spec == Init /\ [][Next]_vars

----------------------------------------------------------------------------
(* The whole of main(): the definitions are loaded and filtered, then the  *)
(* run goes on as above.  inp holds the command line and the files, out    *)
(* what loading has produced so far.                                       *)

NoJourneys == <<>>
NoLoad ==
    [done |-> FALSE, error |-> "", journey_files |-> <<>>, journeys |-> NoJourneys,
     filtered |-> FALSE, warnings |-> {}]

\* lines 126-134; value is the lower-cased option split at commas
parse_skills_modes(value) ==
    IF value = <<"both">> THEN [raised |-> FALSE, modes |-> <<"off", "on">>]
    ELSE IF \E i \in 1..Len(value) : value[i] \notin {"on", "off"}
    THEN [raised |-> TRUE, modes |-> <<>>]
    ELSE [raised |-> FALSE, modes |-> IF value = <<>> THEN <<"off">> ELSE value]

\* lines 137-149; file is "missing", "badjson", "nondict" or "dict"
load_skills_profiles(file) ==
    [raised |-> file = "badjson", profiles |-> IF file = "dict" THEN "dict" ELSE "empty"]

\* lines 440-457; dir is the sorted glob of the journey directory
resolve_journey_files(dir, selection) ==
    IF selection.all
    THEN [raised |-> dir = <<>>, files |-> dir]
    ELSE [raised |-> \E i \in 1..Len(selection.tokens) :
                        \A k \in 1..Len(dir) : dir[k] # selection.tokens[i],
          files |-> selection.tokens]

\* load_journey taking the cases of a definition whose cases is not a list
\* to be empty
load_journey_coerces(payload) ==
    IF ~payload.json \/ ~payload.isdict
    THEN [raised |-> TRUE, journey |-> [id |-> "", cases |-> <<>>]]
    ELSE [raised |-> FALSE,
          journey |-> [id |-> payload.id,
                       cases |-> IF payload.has_cases /\ payload.cases_islist
                                 THEN payload.cases ELSE <<>>]]

\* lines 428-437
load_journey(payload) ==
    IF ~payload.json \/ ~payload.isdict
       \/ ~payload.has_id \/ ~payload.has_cases \/ ~payload.cases_islist
    THEN [raised |-> TRUE, journey |-> [id |-> "", cases |-> <<>>]]
    ELSE [raised |-> FALSE, journey |-> [id |-> payload.id, cases |-> payload.cases]]

\* filter_journeys keeping the journeys that are left without a case
filter_journeys_keeps_empty(journeys, case_filter) ==
    [k \in 1..Len(journeys) |->
        [id |-> journeys[k].id,
         cases |-> SelectSeq(journeys[k].cases, LAMBDA c : c.id \in case_filter)]]

\* lines 1569-1581
filter_journeys(journeys, case_filter) ==
    LET kept == [k \in 1..Len(journeys) |->
                    [id |-> journeys[k].id,
                     cases |-> SelectSeq(journeys[k].cases,
                                         LAMBDA c : c.id \in case_filter)]]
    IN  SelectSeq(kept, LAMBDA j : j.cases # <<>>)

RECURSIVE all_cases(_)
\* lines 1713-1729: the cases in journey / case iteration order
all_cases(journeys) ==
    IF journeys = <<>> THEN <<>>
    ELSE Head(journeys).cases \o all_cases(Tail(journeys))

\* line 1543
ParseSkillsModes ==
    /\ pc = "modes"
    /\ LET r == parse_skills_modes(inp.skills_mode) IN
        IF r.raised
        THEN /\ pc' = "raised"
             /\ out' = [out EXCEPT !.error = "invalid skills mode"]
             /\ args' = args
        ELSE /\ pc' = "profiles"
             /\ args' = [args EXCEPT !.skills_mode = r.modes]
             /\ out' = out
    /\ UNCHANGED <<journey_cases, pair_idx, futures, failed_harnesses,
                   preflight_results, rows, rows_file, persist_log, invocations,
                   summary, inp>>

\* line 1551
LoadSkillsProfiles ==
    /\ pc = "profiles"
    /\ IF load_skills_profiles(inp.profiles_file).raised
       THEN /\ pc' = "raised"
            /\ out' = [out EXCEPT !.error = "skills profiles not json"]
       ELSE /\ pc' = "resolve"
            /\ out' = out
    /\ UNCHANGED <<args, journey_cases, pair_idx, futures, failed_harnesses,
                   preflight_results, rows, rows_file, persist_log, invocations,
                   summary, inp>>

\* line 1564
ResolveJourneyFiles ==
    /\ pc = "resolve"
    /\ LET r == resolve_journey_files(inp.journey_dir, inp.journeys) IN
        IF r.raised
        THEN /\ pc' = "raised"
             /\ out' = [out EXCEPT !.error = "journey not found"]
        ELSE /\ pc' = "load"
             /\ out' = [out EXCEPT !.journey_files = r.files]
    /\ UNCHANGED <<args, journey_cases, pair_idx, futures, failed_harnesses,
                   preflight_results, rows, rows_file, persist_log, invocations,
                   summary, inp>>

\* line 1565
LoadJourneys ==
    /\ pc = "load"
    /\ LET loaded == [k \in 1..Len(out.journey_files) |->
                         load_journey(inp.files[out.journey_files[k]])]
       IN  IF \E k \in 1..Len(loaded) : loaded[k].raised
           THEN /\ pc' = "raised"
                /\ out' = [out EXCEPT !.error = "invalid journey"]
           ELSE /\ pc' = "filter"
                /\ out' = [out EXCEPT !.done = TRUE,
                               !.journeys = [k \in 1..Len(loaded) |-> loaded[k].journey]]
    /\ UNCHANGED <<args, journey_cases, pair_idx, futures, failed_harnesses,
                   preflight_results, rows, rows_file, persist_log, invocations,
                   summary, inp>>

\* lines 1567-1590
FilterCases ==
    /\ pc = "filter"
    /\ IF inp.case_ids = {}
       THEN /\ pc' = "preflight"
            /\ journey_cases' = all_cases(out.journeys)
            /\ out' = out
       ELSE IF \E k \in 1..Len(out.journeys) :
                  \E n \in 1..Len(out.journeys[k].cases) :
                      ~out.journeys[k].cases[n].isobj
       THEN /\ pc' = "raised"
            /\ out' = [out EXCEPT !.error = "case is not an object"]
            /\ journey_cases' = journey_cases
       ELSE LET filtered == filter_journeys(out.journeys, inp.case_ids)
                matched  == UNION {{filtered[k].cases[n].id :
                                        n \in 1..Len(filtered[k].cases)} :
                                    k \in 1..Len(filtered)}
                missing  == inp.case_ids \ matched
            IN  IF filtered = <<>>
                THEN /\ pc' = "raised"
                     /\ out' = [out EXCEPT !.error = "no cases matched",
                                    !.warnings = missing]
                     /\ journey_cases' = journey_cases
                ELSE /\ pc' = "preflight"
                     /\ out' = [out EXCEPT !.journeys = filtered, !.filtered = TRUE,
                                    !.warnings = missing]
                     /\ journey_cases' = all_cases(filtered)
    /\ UNCHANGED <<args, pair_idx, futures, failed_harnesses, preflight_results,
                   rows, rows_file, persist_log, invocations, summary, inp>>

\* line 1730: case.get on an entry of the cases list that is not an object
CaseNotObject ==
    /\ pc = "cases"
    /\ pair_idx <= NumPairs
    /\ ~PairCase(pair_idx).isobj
    /\ pc' = "raised"
    /\ out' = [out EXCEPT !.error = "case is not an object"]
    /\ UNCHANGED <<args, journey_cases, pair_idx, futures, failed_harnesses,
                   preflight_results, rows, rows_file, persist_log, invocations,
                   summary, inp>>

\* journey definition files
Journey(id, cases) ==
    [json |-> TRUE, isdict |-> TRUE, has_id |-> TRUE, has_cases |-> TRUE,
     cases_islist |-> TRUE, id |-> id, cases |-> cases]
LoadCase(n) == Case(n, Checks(<<"A">>, <<>>, <<>>, <<>>), NoTraceChecks, OracleAbsent)
NonObjectCase == [LoadCase(0) EXCEPT !.isobj = FALSE]
GoodJourney1 == Journey("j1", <<LoadCase(1), LoadCase(2)>>)
GoodJourney2 == Journey("j2", <<LoadCase(3)>>)
JourneyFiles ==
    {GoodJourney1,
     Journey("j1", <<>>),
     Journey("j1", <<LoadCase(1), NonObjectCase>>),
     [GoodJourney1 EXCEPT !.json = FALSE],
     [GoodJourney1 EXCEPT !.isdict = FALSE],
     [GoodJourney1 EXCEPT !.has_id = FALSE],
     [GoodJourney1 EXCEPT !.has_cases = FALSE, !.cases_islist = FALSE, !.cases = <<>>],
     [GoodJourney1 EXCEPT !.cases_islist = FALSE, !.cases = <<>>]}

SelectAll == [all |-> TRUE, tokens |-> <<>>]
Select(tokens) == [all |-> FALSE, tokens |-> tokens]

LoadInput(skills_mode, profiles_file, dir, selection, j1, case_ids) ==
    [slice |-> "load", skills_mode |-> skills_mode, profiles_file |-> profiles_file,
     journey_dir |-> dir, journeys |-> selection,
     files |-> [f \in {"j1", "j2", "nope"} |->
                   IF f = "j1" THEN j1 ELSE GoodJourney2],
     case_ids |-> case_ids]

ModesSlice ==
    \E m \in {<<"both">>, <<>>, <<"on", "bogus">>} :
        inp = LoadInput(m, "dict", <<"j1", "j2">>, Select(<<"j2">>), GoodJourney1, {})

ProfilesSlice ==
    \E pf \in {"missing", "badjson", "nondict", "dict"} :
        inp = LoadInput(<<"off">>, pf, <<"j1", "j2">>, Select(<<"j2">>), GoodJourney1, {})

SelectionSlice ==
    \/ inp = LoadInput(<<"off">>, "dict", <<>>, SelectAll, GoodJourney1, {})
    \/ \E sel \in {SelectAll, Select(<<"j2", "nope">>), Select(<<"j2", "j1">>)} :
          inp = LoadInput(<<"off">>, "dict", <<"j1", "j2">>, sel, GoodJourney1, {})

JourneySlice ==
    \E j1 \in JourneyFiles, ids \in {{}, {1}} :
        inp = LoadInput(<<"off">>, "dict", <<"j1", "j2">>, Select(<<"j1">>), j1, ids)

FilterSlice ==
    \E ids \in {{1}, {2, 3}, {3}, {3, 9}, {9}, {2, 1}} :
        inp = LoadInput(<<"off">>, "dict", <<"j1", "j2">>, SelectAll, GoodJourney1, ids)

LoadArgs ==
    {Args(TRUE, "deterministic", FALSE, 1, <<"louie">>, <<>>, <<>>),
     Args(FALSE, "deterministic", FALSE, 1, <<"codex">>, <<>>, <<>>)}

InitLoad ==
    /\ \/ ModesSlice
       \/ ProfilesSlice
       \/ SelectionSlice
       \/ JourneySlice
       \/ FilterSlice
    /\ args \in LoadArgs
    /\ journey_cases = <<>>
    /\ pc = "modes"
    /\ pair_idx = 1
    /\ futures = NewFutures(args)
    /\ failed_harnesses = EmptyMap
    /\ preflight_results = EmptyMap
    /\ rows = <<>>
    /\ rows_file = <<>>
    /\ persist_log = <<>>
    /\ invocations = {}
    /\ summary = NoSummary
    /\ out = NoLoad

NextLoad ==
    \/ ParseSkillsModes
    \/ LoadSkillsProfiles
    \/ ResolveJourneyFiles
    \/ LoadJourneys
    \/ FilterCases
    \/ CaseNotObject
    \/ Preflight
    \/ NoPreflight
    \/ \E i \in 1..Len(futures) : StartWorkItem(i)
    \/ \E i \in 1..Len(futures) : FinishWorkItem(i)
    \/ \E i \in 1..Len(futures) : PersistRow(i)
    \/ \E i \in 1..Len(futures) : RaiseOut(i)
    \/ NextPair
    \/ WriteSummary

SpecLoad == InitLoad /\ [][NextLoad]_vars

----------------------------------------------------------------------------
(* Properties of loading and filtering (SpecLoad).                         *)

\* the definitions the run selected, as they are on disk
Selected == [k \in 1..Len(out.journey_files) |-> inp.files[out.journey_files[k]]]
\* main() is past the loading of the journeys, or has raised
PastLoad == pc \notin {"modes", "profiles", "resolve", "load"}
PastFilter == PastLoad /\ pc # "filter"
\* id or cases is missing, or cases is not a list
MissingKeys(payload) ==
    payload.json /\ payload.isdict
    /\ (~payload.has_id \/ ~payload.has_cases \/ ~payload.cases_islist)
HasNonObjectCase(payload) ==
    \E n \in 1..Len(payload.cases) : ~payload.cases[n].isobj
IndexOfJourney(id) == CHOOSE k \in 1..Len(Selected) : Selected[k].id = id
IndexOfCase(cases, id) == CHOOSE n \in 1..Len(cases) : cases[n].id = id

\* C14: when a selected journey definition lacks id or cases, or its cases
\* is not a list, loading raises a validation error; no journey is loaded.
C14_LoadJourneyValidates ==
    (PastLoad /\ \E k \in 1..Len(Selected) : MissingKeys(Selected[k])) =>
        /\ pc = "raised"
        /\ out.error = "invalid journey"
        /\ out.journeys = NoJourneys
        /\ journey_cases = <<>>
        /\ rows = <<>>

\* C14 witness: a definition with an id whose cases is present and not a
\* list has been refused.
C14_Witness ==
    /\ pc = "raised"
    /\ out.error = "invalid journey"
    /\ \E k \in 1..Len(Selected) :
          /\ Selected[k].json /\ Selected[k].isdict
          /\ Selected[k].has_id /\ Selected[k].has_cases
          /\ ~Selected[k].cases_islist

\* C15: every journey that loading accepts has a non-empty list of cases.
C15_LoadedJourneysNonEmpty ==
    \A k \in 1..Len(out.journeys) : out.journeys[k].cases # <<>>

\* C16: with a non-empty case-id filter, every kept case has its id in the
\* filter and the kept cases and journeys keep their order; journeys left
\* without a case are dropped; ids that match nothing are only warned
\* about; and when nothing matches the run fails before any harness is
\* invoked.
C16_CaseFilter ==
    (/\ inp.case_ids # {}
     /\ PastFilter
     /\ out.done
     /\ \A k \in 1..Len(Selected) : ~HasNonObjectCase(Selected[k])) =>
        LET ids(cases) == {cases[n].id : n \in 1..Len(cases)}
            matching == {k \in 1..Len(Selected) :
                            ids(Selected[k].cases) \cap inp.case_ids # {}}
        IN  IF matching = {}
            THEN /\ pc = "raised"
                 /\ out.error = "no cases matched"
                 /\ invocations = {}
                 /\ rows = <<>>
            ELSE /\ out.error # "no cases matched"
                 /\ out.warnings =
                       inp.case_ids \ UNION {ids(Selected[k].cases) :
                                               k \in 1..Len(Selected)}
                 /\ {IndexOfJourney(out.journeys[a].id) : a \in 1..Len(out.journeys)}
                       = matching
                 /\ \A a, b \in 1..Len(out.journeys) :
                       a < b => IndexOfJourney(out.journeys[a].id)
                                  < IndexOfJourney(out.journeys[b].id)
                 /\ \A a \in 1..Len(out.journeys) :
                       LET kept == out.journeys[a].cases
                           orig == Selected[IndexOfJourney(out.journeys[a].id)].cases
                       IN  /\ kept # <<>>
                           /\ ids(kept) = ids(orig) \cap inp.case_ids
                           /\ \A m, n \in 1..Len(kept) :
                                 m < n => IndexOfCase(orig, kept[m].id)
                                            < IndexOfCase(orig, kept[n].id)
                 /\ journey_cases = all_cases(out.journeys)

\* C16 witness: the filter names one case of the second journey and an id
\* that matches nothing; the first journey is dropped, the unknown id is
\* warned about and the run ends with the one row.
C16_Witness ==
    /\ inp.case_ids = {3, 9}
    /\ Len(Selected) = 2
    /\ Len(out.journeys) = 1
    /\ out.journeys[1].id = "j2"
    /\ out.warnings = {9}
    /\ pc = "done"
    /\ Len(rows) = 1
    /\ rows[1].case_id = 3

\* a definition the run reads is malformed: an invalid skills mode, a
\* skills-profile file that is not a JSON object, an unknown journey
\* selector token, a journey file that is not a JSON object with id and a
\* list of cases that are objects
MalformedDefinition ==
    \/ parse_skills_modes(inp.skills_mode).raised
    \/ inp.profiles_file \in {"badjson", "nondict"}
    \/ resolve_journey_files(inp.journey_dir, inp.journeys).raised
    \/ \E k \in 1..Len(resolve_journey_files(inp.journey_dir, inp.journeys).files) :
          LET payload ==
                inp.files[resolve_journey_files(inp.journey_dir, inp.journeys).files[k]]
          IN  \/ ~payload.json
              \/ ~payload.isdict
              \/ MissingKeys(payload)
              \/ HasNonObjectCase(payload)

\* C17: a run with a definition error invokes no harness process (the
\* preflight included) and writes no row.
C17_DefinitionErrorBeforeHarness ==
    MalformedDefinition => (invocations = {} /\ rows = <<>>)

----------------------------------------------------------------------------
(* Properties of the run (Spec).  rows[j] was persisted as step j, and     *)
(* persist_log[j] says which work item produced it.                        *)

IsSkip(row) == startswith(row.harness_error, "failfast_skip:")
SamePair(r1, r2) == r1.harness = r2.harness /\ r1.model = r2.model
\* a harness-level failure that is not itself a skip
IsFailure(row) == ~row.harness_ok /\ ~IsSkip(row)
\* the variant's own harness process was spawned for row j
VariantInvoked(j) ==
    \E inv \in invocations :
        /\ inv.role = "variant"
        /\ inv.pair = persist_log[j].pair
        /\ inv.harness_idx = persist_log[j].harness_idx
PreflightFailed(h) ==
    h \in DOMAIN preflight_results /\ ~preflight_results[h].ok

\* C1: with more than one worker, the rows of one (case, skills-mode) pair
\* appear in the ledger in harness-variant index order, for every completion
\* order of the workers.
C1_RowsInVariantOrder ==
    args.max_workers > 1 =>
        \A i, j \in 1..Len(rows_file) :
            (i < j /\ persist_log[i].pair = persist_log[j].pair)
                => persist_log[i].harness_idx < persist_log[j].harness_idx

\* C2 as claimed: with fail-fast, once a row of a (harness, model) pair has
\* been persisted with a harness failure that is not a skip, every later row
\* of that pair is a fail-fast skip with harness_ok = false, produced without
\* invoking the pair's harness.
C2_LaterRowsSkipped ==
    args.failfast =>
        \A i, j \in 1..Len(rows) :
            (i < j /\ SamePair(rows[i], rows[j]) /\ IsFailure(rows[i]))
                => /\ ~rows[j].harness_ok
                   /\ IsSkip(rows[j])
                   /\ ~VariantInvoked(j)

\* C2 as amended: the same, for every later row whose work item started
\* after the failing row was persisted.
C2_LaterStartedRowsSkipped ==
    args.failfast =>
        \A i, j \in 1..Len(rows) :
            (/\ i < j
             /\ SamePair(rows[i], rows[j])
             /\ IsFailure(rows[i])
             /\ persist_log[j].started_at >= i)
                => /\ ~rows[j].harness_ok
                   /\ IsSkip(rows[j])
                   /\ ~VariantInvoked(j)

\* C2 witness: a failure row of a pair followed by a skip row of the same
\* pair.
C2_Witness ==
    /\ args.failfast
    /\ \E i, j \in 1..Len(rows) :
        /\ i < j
        /\ SamePair(rows[i], rows[j])
        /\ IsFailure(rows[i])
        /\ persist_log[j].started_at >= i
        /\ IsSkip(rows[j])
        /\ ~rows[j].harness_ok
        /\ ~VariantInvoked(j)

\* C3: a work item is short-circuited only if its own (harness, model) pair
\* failed before it: an earlier row of that exact pair is a harness failure,
\* or the pair is louie and louie's preflight failed.  Without fail-fast
\* nothing is short-circuited.
C3_SkipOnlyOwnPair ==
    \A j \in 1..Len(rows) :
        IsSkip(rows[j]) =>
            /\ args.failfast
            /\ \/ \E i \in 1..(j - 1) : SamePair(rows[i], rows[j]) /\ IsFailure(rows[i])
               \/ /\ rows[j].harness = "louie"
                  /\ rows[j].model = "default"
                  /\ PreflightFailed("louie")

\* C3 witness: with fail-fast, a row of one model of a harness is a failure,
\* and a work item of another model of the same harness that started after
\* it ran its harness normally.
C3_Witness ==
    /\ args.failfast
    /\ \E i, j \in 1..Len(rows) :
        /\ i < j
        /\ rows[i].harness = rows[j].harness
        /\ rows[i].model # rows[j].model
        /\ IsFailure(rows[i])
        /\ persist_log[j].started_at >= i
        /\ ~IsSkip(rows[j])
        /\ VariantInvoked(j)

\* C4: every (harness, model) pair in the failure registry has a persisted
\* row whose own harness result is not ok (or is louie after a failed
\* preflight); rows that only fail grading never enter it.
C4_RegistryOnlyHarnessFailures ==
    \A key \in DOMAIN failed_harnesses :
        \/ \E j \in 1..Len(rows) :
              /\ <<rows[j].harness, rows[j].model>> = key
              /\ ~rows[j].harness_ok
        \/ key = <<"louie", "default">> /\ PreflightFailed("louie")

\* C4 witness: with fail-fast, a row whose harness succeeded fails because
\* the oracle harness could not be run, and its pair is not in the registry.
C4_Witness ==
    /\ args.failfast
    /\ \E j \in 1..Len(rows) :
        /\ rows[j].harness_ok
        /\ rows[j].oracle_attempted
        /\ ~rows[j].oracle_ok
        /\ ~rows[j].pass_bool
        /\ <<rows[j].harness, rows[j].model>> \notin DOMAIN failed_harnesses

\* C5: every work item whose harness invocation fails at the infrastructure
\* level, or is short-circuited by fail-fast, yields a row with
\* harness_ok = false and an error string, and the run goes on.
C5_InfraFailureRow ==
    /\ \A j \in 1..Len(rows) :
          (persist_log[j].infra_failure \/ (args.failfast /\ persist_log[j].lookup.hit))
              => ~rows[j].harness_ok /\ rows[j].harness_error # NoError
    /\ \A i \in 1..Len(futures) :
          (futures[i].infra_failure \/ (args.failfast /\ futures[i].lookup.hit))
              => futures[i].state # "raised"

\* rows of pair p in the ledger
PairRows(p) == {j \in 1..Len(persist_log) : persist_log[j].pair = p}
\* work items of the current pair that have started
Started == {j \in 1..Len(futures) : futures[j].state # "pending"}
\* work items executing: started and not yet returned
Executing == {j \in 1..Len(futures) : futures[j].state = "running"}

\* C18: the ledger lists the pairs' rows in iteration order, and no work
\* item of a pair starts before every row of every earlier pair has been
\* persisted.
C18_PairsNotInterleaved ==
    /\ \A i, j \in 1..Len(persist_log) :
          i < j => persist_log[i].pair <= persist_log[j].pair
    /\ \A j \in 1..Len(persist_log) :
          persist_log[j].started_at >= (persist_log[j].pair - 1) * Len(harness_variants)
    /\ Started # {} =>
          \A p \in 1..(pair_idx - 1) :
              Cardinality(PairRows(p)) = Len(harness_variants)

\* C18 witness: a pool run of two pairs; the first pair's rows were
\* persisted out of variant order, and both are in the ledger before the
\* second pair's first work item has started.
C18_Witness ==
    /\ args.max_workers > 1
    /\ pair_idx = 2
    /\ Started # {}
    /\ Len(persist_log) = 2
    /\ persist_log[1].pair = 1 /\ persist_log[1].harness_idx = 2
    /\ persist_log[2].pair = 1 /\ persist_log[2].harness_idx = 1

\* C19: at most min(max_workers, number of variants) work items execute at a
\* time, all of the current pair, and with max_workers = 1 or one variant
\* a work item starts only after the previous one has been persisted.
C19_BoundedWorkers ==
    /\ Cardinality(Executing) <= Min(args.max_workers, Len(harness_variants))
    /\ Executing # {} =>
          /\ pc \in {"cases", "raised"}
          /\ pair_idx <= NumPairs
          /\ Len(rows) >= (pair_idx - 1) * Len(harness_variants)
    /\ (args.max_workers = 1 \/ Len(harness_variants) = 1) =>
          Cardinality({j \in 1..Len(futures) :
                          futures[j].state \in {"running", "finished", "raised"}}) <= 1

\* C19 witness: three variants on two workers; two work items execute and
\* the third waits.
C19_Witness ==
    /\ args.max_workers = 2
    /\ Len(harness_variants) = 3
    /\ Cardinality(Executing) = 2
    /\ futures[3].state = "pending"

\* a step changes the registry, the row list or the ledger
SharedChanged ==
    \/ failed_harnesses' # failed_harnesses
    \/ rows' # rows
    \/ rows_file' # rows_file
\* the step persists one completed work item
PersistStep ==
    \E i \in 1..Len(futures) :
        /\ futures[i].state = "finished"
        /\ futures' = [futures EXCEPT ![i] = [@ EXCEPT !.state = "persisted"]]
        /\ rows' = Append(rows, futures[i].row)
        /\ rows_file' = Append(rows_file, json_line(futures[i].row))
\* the step is the preflight, before any work item has started
PreflightStep ==
    /\ pc = "preflight"
    /\ Started = {}
    /\ rows' = rows
    /\ rows_file' = rows_file

\* C20 as claimed: the registry, the row list and the ledger change only in
\* the persist step, which handles one completed work item.
C20_SharedOnlyInPersist == [][SharedChanged => PersistStep]_vars

\* C20 as amended: they change only in the main thread's preflight, before
\* any work item has started, and in the persist step.
C20_SharedOnlyInMainThread == [][SharedChanged => (PersistStep \/ PreflightStep)]_vars

\* C20 witness: a pool run in which the preflight and then the persist step
\* of a failed work item have both written the registry, with two rows
\* persisted.
C20_Witness ==
    /\ args.max_workers > 1
    /\ <<"louie", "default">> \in DOMAIN failed_harnesses
    /\ <<"codex", "default">> \in DOMAIN failed_harnesses
    /\ Len(rows) = 2
    /\ Len(rows_file) = 2

----------------------------------------------------------------------------
(* Runs with codex variants and a codex oracle, under the                  *)
(* working-directory options.                                              *)

HomeArgsSet ==
    {[Args(FALSE, g, FALSE, w, <<"codex">>, <<>>, <<"off">>)
        EXCEPT !.codex_models = <<"m1", "m2">>, !.codex_cwd = cwd,
               !.oracle_codex_cwd = ocwd] :
        g \in {"deterministic", "oracle"}, w \in {1, MaxWorkers},
        cwd \in {"", "work"}, ocwd \in {"", "judge"}}
    \cup
    {[Args(TRUE, "oracle", FALSE, MaxWorkers, <<"louie", "codex">>, <<>>, <<"off">>)
        EXCEPT !.codex_cwd = cwd] :
        cwd \in {"", "work"}}

InitHomes ==
    /\ args \in HomeArgsSet
    /\ journey_cases \in {[i \in 1..n |-> SchedCase(i)] : n \in 0..1}
    /\ pc = "preflight"
    /\ pair_idx = 1
    /\ futures = NewFutures(args)
    /\ failed_harnesses = EmptyMap
    /\ preflight_results = EmptyMap
    /\ rows = <<>>
    /\ rows_file = <<>>
    /\ persist_log = <<>>
    /\ invocations = {}
    /\ summary = NoSummary
    /\ inp = NoInput
    /\ out = NoOutput

SpecHomes == InitHomes /\ [][Next]_vars

\* the codex processes a started work item spawns, with their CODEX_HOME:
\* the variant's unless the work item is skipped, the oracle's when the
\* oracle is requested
CodexProcesses(i) ==
    (IF harness_variants[i].harness = "codex"
        /\ ~(args.failfast /\ futures[i].lookup.hit)
     THEN {[role |-> "variant",
            home |-> variant_codex_home(args, PairMode(pair_idx), "codex",
                                        pair_idx, i)]}
     ELSE {})
    \cup
    (IF args.oracle_harness = "codex" /\ oracle_requested(args, PairCase(pair_idx))
     THEN {[role |-> "oracle",
            home |-> oracle_codex_home(args, PairMode(pair_idx), pair_idx, i)]}
     ELSE {})

IsInstance(home) == Len(home) = 3 /\ home[1] = "instance"

\* C21: with more than one worker, the codex processes of two work items
\* that execute at the same time never have the same CODEX_HOME, and each
\* has a spawned instance of its own, whatever --codex-cwd and
\* --oracle-codex-cwd are.
C21_PrivateCodexHome ==
    args.max_workers > 1 =>
        \A i, j \in Executing :
            i # j =>
                \A p \in CodexProcesses(i), q \in CodexProcesses(j) :
                    /\ IsInstance(p.home)
                    /\ IsInstance(q.home)
                    /\ p.home # q.home

----------------------------------------------------------------------------
(* prepare_native_skill_env: the skills mount of one (profile, mode,       *)
(* harness) directory over successive runs into the same --out directory.  *)
(* An entry of the mount is absent, a symlink to the skill, or a copied    *)
(* directory.  inp names the directory, out holds the mount and the last   *)
(* call.                                                                   *)

SkillSet == {"pygraphistry", "louie"}
EmptyMount == [s \in SkillSet |-> "absent"]

\* lines 165-170
clear_symlinks(mount) ==
    [s \in SkillSet |-> IF mount[s] = "symlink" THEN "absent" ELSE mount[s]]

\* lines 241-246
clear_mount(mount, mount_mode) ==
    IF mount_mode = "symlink" THEN clear_symlinks(mount) ELSE EmptyMount

\* lines 223-257, the mount it leaves
prepare_native_skill_env(mount, harness, mount_mode, skill_names, on_disk) ==
    IF harness \notin {"claude", "codex"} THEN mount
    ELSE LET cleared == clear_mount(mount, mount_mode) IN
         [s \in SkillSet |->
            IF (\E k \in 1..Len(skill_names) : skill_names[k] = s) /\ s \in on_disk
            THEN IF mount_mode = "copy" THEN "copy" ELSE "symlink"
            ELSE cleared[s]]

NoMountCall ==
    [slice |-> "mount", prepared |-> FALSE, mount |-> EmptyMount,
     mount_mode |-> "symlink", skill_names |-> <<>>, on_disk |-> {}]

\* lines 1643-1652: one run prepares the directory
PrepareNativeSkillEnv ==
    /\ pc = "mount"
    /\ \E mount_mode \in {"symlink", "copy", "other"},
          names \in {<<>>, <<"pygraphistry">>, <<"louie">>,
                     <<"pygraphistry", "louie">>, <<"louie", "louie">>,
                     <<"unknown">>},
          on_disk \in SUBSET SkillSet :
        LET skill_names == IF inp.mode = "on" THEN names ELSE <<>> IN
        out' = [slice |-> "mount", prepared |-> TRUE,
                mount |-> prepare_native_skill_env(out.mount, inp.harness,
                                                   mount_mode, skill_names, on_disk),
                mount_mode |-> mount_mode, skill_names |-> skill_names,
                on_disk |-> on_disk]
    /\ UNCHANGED <<args, journey_cases, pc, pair_idx, futures, failed_harnesses,
                   preflight_results, rows, rows_file, persist_log, invocations,
                   summary, inp>>

InitMount ==
    /\ \E mode \in {"on", "off"}, harness \in {"claude", "codex", "louie"} :
          inp = [slice |-> "mount", mode |-> mode, harness |-> harness]
    /\ out = NoMountCall
    /\ args = Args(FALSE, "deterministic", FALSE, 1, <<inp.harness>>, <<>>, <<inp.mode>>)
    /\ journey_cases = <<>>
    /\ pc = "mount"
    /\ pair_idx = 1
    /\ futures = <<>>
    /\ failed_harnesses = EmptyMap
    /\ preflight_results = EmptyMap
    /\ rows = <<>>
    /\ rows_file = <<>>
    /\ persist_log = <<>>
    /\ invocations = {}
    /\ summary = NoSummary

NextMount == PrepareNativeSkillEnv

SpecMount == InitMount /\ [][NextMount]_vars

\* the skills in the mount
Mounted == {s \in SkillSet : out.mount[s] # "absent"}
\* the skills the last call asked for that exist on disk
Requested ==
    {s \in out.on_disk : \E k \in 1..Len(out.skill_names) : out.skill_names[k] = s}

\* C22: after a preparation for claude or codex the mount holds exactly the
\* requested skills that exist on disk, whatever earlier preparations left
\* in the directory; for mode off it holds no skill.
C22_MountIsRequestedSet ==
    (out.prepared /\ inp.harness \in {"claude", "codex"}) =>
        /\ Mounted = Requested
        /\ inp.mode = "off" => Mounted = {}

----------------------------------------------------------------------------
(* summarize_rows on row lists drawn at Init.  A bucket dictionary is a    *)
(* function from its keys to buckets; a rate r is the integer r * ScoreOne.*)

\* longest row list summarized
MaxRows == 3

Groupings ==
    {"by_harness", "by_harness_and_model", "by_skills_mode", "by_harness_and_mode",
     "by_harness_model_and_mode", "by_eval_intent", "by_grading_mode",
     "by_grading_source"}

\* lines 1252-1257 and 1307, 1319, 1331: the key of the row's bucket
bucket_key(grouping, row) ==
    LET harness == row.harness
        model == row.model
        skills_mode == row.skills_mode
        eval_intent == IF row.eval_intent = "" THEN "unspecified" ELSE row.eval_intent
        grading_mode == IF row.grading_mode = "" THEN "deterministic"
                        ELSE row.grading_mode
        grading_source == IF row.grading_source = "" THEN "deterministic"
                          ELSE row.grading_source
    IN  CASE grouping = "by_harness" -> <<harness>>
          [] grouping = "by_harness_and_model" -> variant_key(harness, model)
          [] grouping = "by_skills_mode" -> <<skills_mode>>
          [] grouping = "by_harness_and_mode" -> <<harness, skills_mode>>
          [] grouping = "by_harness_model_and_mode" ->
                variant_key(harness, model) \o <<skills_mode>>
          [] grouping = "by_eval_intent" -> <<eval_intent>>
          [] grouping = "by_grading_mode" -> <<grading_mode>>
          [] OTHER -> <<grading_source>>

\* lines 1259-1342: a bucket as it is created, without the labels (harness,
\* model, skills_mode, ...) that some of the dictionaries add to it
new_bucket ==
    [total |-> 0, passed |-> 0, scores |-> <<>>, latency_ms |-> <<>>, harness_ok |-> 0]

\* bucket_add counting a row as passed when its harness was ok
bucket_add_counts_harness_ok(bucket, row) ==
    [total |-> bucket.total + 1,
     passed |-> bucket.passed + (IF row.harness_ok THEN 1 ELSE 0),
     harness_ok |-> bucket.harness_ok + (IF row.harness_ok THEN 1 ELSE 0),
     scores |-> Append(bucket.scores, row.score),
     latency_ms |-> Append(bucket.latency_ms, row.latency_ms)]

\* lines 1344-1351 (and the seven copies that follow): the row enters a bucket
bucket_add(bucket, row) ==
    [total |-> bucket.total + 1,
     passed |-> bucket.passed + (IF row.pass_bool THEN 1 ELSE 0),
     harness_ok |-> bucket.harness_ok + (IF row.harness_ok THEN 1 ELSE 0),
     scores |-> Append(bucket.scores, row.score),
     latency_ms |-> Append(bucket.latency_ms, row.latency_ms)]

RECURSIVE Sum(_)
Sum(s) == IF s = <<>> THEN 0 ELSE Head(s) + Sum(Tail(s))

\* lines 1416-1423
finalize_bucket(bucket) ==
    LET total == bucket.total
        scores == bucket.scores
        lats == bucket.latency_ms
    IN  [total |-> total, passed |-> bucket.passed, harness_ok |-> bucket.harness_ok,
         pass_rate |-> IF total # 0 THEN (bucket.passed * ScoreOne) \div total ELSE 0,
         harness_ok_rate |->
            IF total # 0 THEN (bucket.harness_ok * ScoreOne) \div total ELSE 0,
         avg_score |-> IF scores # <<>> THEN Sum(scores) \div Len(scores) ELSE 0,
         avg_latency_ms |-> IF lats # <<>> THEN Sum(lats) \div Len(lats) ELSE 0]

RECURSIVE fill_buckets(_, _, _)
\* lines 1251-1414, for one of the dictionaries: the loop over the rows
fill_buckets(grouping, row_list, buckets) ==
    IF row_list = <<>> THEN buckets
    ELSE LET row == Head(row_list)
             key == bucket_key(grouping, row)
             present == IF key \in DOMAIN buckets THEN buckets
                        ELSE (key :> new_bucket) @@ buckets
         IN  fill_buckets(grouping, Tail(row_list),
                          [present EXCEPT ![key] = bucket_add(@, row)])

\* lines 1241-1467
summarize_rows(row_list) ==
    LET filled(g) == fill_buckets(g, row_list, [k \in {} |-> new_bucket])
        total_all == Len(row_list)
        passed_all == Cardinality({i \in 1..Len(row_list) : row_list[i].pass_bool})
        harness_ok_all == Cardinality({i \in 1..Len(row_list) : row_list[i].harness_ok})
    IN  [total_rows |-> total_all,
         passed_rows |-> passed_all,
         overall_pass_rate |->
            IF total_all # 0 THEN (passed_all * ScoreOne) \div total_all ELSE 0,
         harness_ok_rows |-> harness_ok_all,
         harness_ok_rate |->
            IF total_all # 0 THEN (harness_ok_all * ScoreOne) \div total_all ELSE 0,
         groups |-> [g \in Groupings |->
                        [k \in DOMAIN filled(g) |-> finalize_bucket(filled(g)[k])]]]

SummaryRow(harness, model, skills_mode, eval_intent, outcome) ==
    [harness |-> harness, model |-> model, skills_mode |-> skills_mode,
     eval_intent |-> eval_intent, grading_mode |-> "deterministic",
     grading_source |-> outcome.source,
     pass_bool |-> outcome.pass_bool, harness_ok |-> outcome.harness_ok,
     score |-> outcome.score, latency_ms |-> outcome.latency_ms]

SummaryRows ==
    {SummaryRow(v[1], v[2], me[1], me[2], o) :
        v \in {<<"claude", "m1">>, <<"claude", "default">>, <<"codex", "default">>},
        me \in {<<"on", "">>, <<"off", "explore">>},
        o \in {[pass_bool |-> TRUE, harness_ok |-> TRUE, score |-> ScoreOne,
                latency_ms |-> 40, source |-> "deterministic"],
               [pass_bool |-> FALSE, harness_ok |-> TRUE, score |-> 600,
                latency_ms |-> 25, source |-> "deterministic+trace"],
               [pass_bool |-> FALSE, harness_ok |-> FALSE, score |-> 0,
                latency_ms |-> 0, source |-> ""]}}

InitSummary ==
    /\ \E n \in 0..MaxRows : \E row_list \in [1..n -> SummaryRows] :
          inp = [slice |-> "summary", rows |-> row_list]
    /\ out = NoOutput
    /\ args = Args(FALSE, "deterministic", FALSE, 1, <<"claude">>, <<>>, <<"off">>)
    /\ journey_cases = <<>>
    /\ pc = "summarize"
    /\ pair_idx = 1
    /\ futures = <<>>
    /\ failed_harnesses = EmptyMap
    /\ preflight_results = EmptyMap
    /\ rows = <<>>
    /\ rows_file = <<>>
    /\ persist_log = <<>>
    /\ invocations = {}
    /\ summary = NoSummary

\* line 2094
Summarize ==
    /\ pc = "summarize"
    /\ ~out.done
    /\ out' = [done |-> TRUE, summary |-> summarize_rows(inp.rows)]
    /\ UNCHANGED <<args, journey_cases, pc, pair_idx, futures, failed_harnesses,
                   preflight_results, rows, rows_file, persist_log, invocations,
                   summary, inp>>

NextSummary == Summarize

SpecSummary == InitSummary /\ [][NextSummary]_vars

\* the sum of f over the buckets of a dictionary
RECURSIVE SumOver(_, _, _)
SumOver(buckets, keys, field) ==
    IF keys = {} THEN 0
    ELSE LET k == CHOOSE x \in keys : TRUE
         IN  (IF field = "total" THEN buckets[k].total ELSE buckets[k].passed)
             + SumOver(buckets, keys \ {k}, field)

\* C24: in every grouping the bucket totals sum to total_rows and the bucket
\* passed counts to passed_rows, the number of rows and of passed rows of
\* the list; each bucket's pass_rate is passed / total; and no finalized
\* bucket keeps its score or latency sample list.
C24_BucketsPartitionRows ==
    out.done =>
        /\ out.summary.total_rows = Len(inp.rows)
        /\ out.summary.passed_rows =
              Cardinality({i \in 1..Len(inp.rows) : inp.rows[i].pass_bool})
        /\ \A g \in Groupings :
              LET buckets == out.summary.groups[g] IN
              /\ SumOver(buckets, DOMAIN buckets, "total") = out.summary.total_rows
              /\ SumOver(buckets, DOMAIN buckets, "passed") = out.summary.passed_rows
              /\ \A k \in DOMAIN buckets :
                    /\ buckets[k].total > 0
                    /\ buckets[k].pass_rate * buckets[k].total
                          = buckets[k].passed * ScoreOne
                    /\ "scores" \notin DOMAIN buckets[k]
                    /\ "latency_ms" \notin DOMAIN buckets[k]

\* C24 witness: three rows of two harnesses, one of them passed; the
\* harness grouping has two buckets and claude's holds two rows, one passed.
C24_Witness ==
    /\ out.done
    /\ out.summary.total_rows = 3
    /\ out.summary.passed_rows = 1
    /\ DOMAIN out.summary.groups["by_harness"] = {<<"claude">>, <<"codex">>}
    /\ out.summary.groups["by_harness"][<<"claude">>].total = 2
    /\ out.summary.groups["by_harness"][<<"claude">>].passed = 1
    /\ 2 * out.summary.groups["by_harness"][<<"claude">>].pass_rate = ScoreOne
    /\ Cardinality(DOMAIN out.summary.groups["by_harness_and_model"]) = 3

\* louie is among the harnesses of the run
LouieSelected == \E i \in 1..Len(args.harnesses) : args.harnesses[i] = "louie"
PreflightInvocations == {inv \in invocations : inv.role = "preflight"}
CaseInvocations == {inv \in invocations : inv.role # "preflight"}

\* the preflight and what follows from it, apart from louie's invocations
\* for a case
PreflightGoverns ==
    /\ (args.failfast /\ LouieSelected) =>
          /\ pc = "preflight" =>
                invocations = {} /\ Started = {} /\ rows = <<>>
          /\ pc # "preflight" =>
                /\ Cardinality(PreflightInvocations) = 1
                /\ \A inv \in PreflightInvocations : inv.harness = "louie"
                /\ "louie" \in DOMAIN preflight_results
          /\ PreflightFailed("louie") =>
                /\ variant_key("louie", "") \in DOMAIN failed_harnesses
                /\ startswith(failed_harnesses[variant_key("louie", "")],
                              "preflight_failed:")
                /\ \A i \in Started :
                      harness_variants[i].harness = "louie" => futures[i].lookup.hit
                /\ \A j \in 1..Len(rows) :
                      rows[j].harness = "louie" =>
                          /\ ~rows[j].harness_ok
                          /\ IsSkip(rows[j])
                          /\ Len(rows[j].harness_error) >= 2
                          /\ rows[j].harness_error[2] = "preflight_failed:"
                          /\ ~VariantInvoked(j)
    /\ ~(args.failfast /\ LouieSelected) =>
          /\ PreflightInvocations = {}
          /\ preflight_results = EmptyMap
    /\ ~args.failfast =>
          /\ failed_harnesses = EmptyMap
          /\ \A j \in 1..Len(rows) : ~IsSkip(rows[j])
          /\ \A j \in 1..Len(rows) : VariantInvoked(j)

\* C27 as claimed: with fail-fast and louie among the harnesses, one
\* preflight invocation of louie happens before any case runs; if it fails,
\* louie is in the registry from then on, every louie work item is skipped
\* with harness_error starting 'failfast_skip: preflight_failed:', and louie
\* is never invoked for a case.  Without fail-fast no preflight runs and no
\* work item is skipped.
C27_LouieNeverInvoked ==
    /\ PreflightGoverns
    /\ (args.failfast /\ LouieSelected /\ PreflightFailed("louie")) =>
          \A inv \in CaseInvocations : inv.harness # "louie"

\* C27 as amended: the same, with louie never invoked as the harness of a
\* work item; as the oracle harness (--oracle-harness louie) it is still
\* invoked to grade.
C27_LouiePreflight ==
    /\ PreflightGoverns
    /\ (args.failfast /\ LouieSelected /\ PreflightFailed("louie")) =>
          \A inv \in CaseInvocations : inv.role = "variant" => inv.harness # "louie"

\* C27 witness: the preflight failed; louie's work item was skipped without
\* an invocation and the codex work item of the same pair ran its harness.
C27_Witness ==
    /\ args.failfast
    /\ PreflightFailed("louie")
    /\ \E j, k \in 1..Len(rows) :
          /\ rows[j].harness = "louie"
          /\ IsSkip(rows[j])
          /\ rows[j].harness_error[2] = "preflight_failed:"
          /\ ~VariantInvoked(j)
          /\ rows[k].harness = "codex"
          /\ persist_log[k].pair = persist_log[j].pair
          /\ VariantInvoked(k)
          /\ ~IsSkip(rows[k])

\* C6: once the definitions have loaded, the run ends only by writing the
\* summary and returning 0.
C6_RunEndsWithSummary ==
    pc \notin {"preflight", "cases"} => (pc = "done" /\ summary.written)

====
